---- MODULE Spec2Model ----
(***************************************************************************)
(* Monero transaction signing on the device: the request multiplexer       *)
(* TsxSigner (apps/monero/protocol/tsx_sign.py) and the per-transaction    *)
(* TTransactionBuilder (apps/monero/protocol/tsx_sign_builder.py).         *)
(*                                                                         *)
(* Cryptography is ideal: a hash, an HMAC and an AEAD ciphertext are the   *)
(* record of what went into them, so two of them are equal exactly when    *)
(* their inputs are.  Scalars live in 0..ScalarMod-1.  The host is the     *)
(* adversary of the protocol: it may send any request at any time, filled  *)
(* with plain data of its choice and with sealed values (HMACs,            *)
(* ciphertexts) the device emitted earlier, or with garbage.               *)
(***************************************************************************)
EXTENDS Integers, Sequences, FiniteSets, TLC

VARIABLES
    tsx_ctr,      \* TsxSigner.tsx_ctr
    err_ctr,      \* TsxSigner.err_ctr
    purge,        \* TsxSigner.purge
    tsx_obj,      \* TsxSigner.tsx_obj: NoObj (None) or the builder's fields
    creds,        \* TsxSigner.creds
    iface,        \* TsxSigner.iface: the kind of UI object installed
    ui_errors,    \* number of iface.transaction_error notifications shown
    resp,         \* what the last sign() call gave back to its caller
    host,         \* sealed values (HMACs, ciphertexts) the host has received
    accepted,     \* history: requests the live transaction object accepted
    req,          \* history: the sub-message of the last request
    lab,          \* the arguments and results of a run of a pure function
    holder        \* apps.monero.STATE, the holder of the persistent objects

vars == <<tsx_ctr, err_ctr, purge, tsx_obj, creds, iface, ui_errors, resp, host, accepted, req,
          lab, holder>>

---------------------------------------------------------------------------
(* Bounds of the model *)

MaxTsx == 2          \* Init requests handled by one signer
MaxTsxQuiet == 1     \* the same, of the specifications of one session
MaxErr == 2          \* errors handled by one signer
MaxInputs == 2       \* TsxData.num_inputs ranges over 0..MaxInputs
MaxOutputs == 2      \* len(TsxData.outputs) ranges over 0..MaxOutputs
MaxAmount == 2       \* amounts of source and destination entries
MaxFee == 1          \* TsxData.fee ranges over 0..MaxFee
MaxRandom == 1       \* the random scalar of a key schedule run is 0..MaxRandom
MaxBytes == 5        \* byte strings handed to the deserializer are at most this long
KeySize == 1         \* bytes of a fixed-size blob (SIZE of Hash, ECKey, ECPoint, scaled)
ScalarMod == 2       \* scalars are 0..ScalarMod-1 (the group order)
RingSize == 1        \* len(src_entr.outputs)

(* Program constants *)
STEP_INP == 100
STEP_PERM == 200
STEP_VINI == 300
STEP_OUT == 400
STEP_ALL_OUT == 500
STEP_MLSAG == 600
STEP_SIGN == 700

---------------------------------------------------------------------------
(* Optional values: None is the empty tuple, Some(x) the one-element one. *)
None == <<>>
Some(x) == <<x>>

Scalars == 0..(ScalarMod - 1)
sc_add(a, b) == (a + b) % ScalarMod
sc_sub(a, b) == (a - b + ScalarMod) % ScalarMod
sc_eq(a, b) == a = b

Dests == [amount : 1..MaxAmount, addr : {"A"}, is_subaddress : {FALSE}]
OutputLists == UNION {[1..k -> Dests] : k \in 0..MaxOutputs}

NoObj == [alive |-> FALSE]
NoExc == ""

---------------------------------------------------------------------------
(* TState, the stage automaton of one transaction (tsx_sign_state.py).     *)
(* Each operation gives the stage it moves to, or Illegal when it raises   *)
(* ValueError('Illegal state').                                            *)

Illegal == "Illegal state"

init_tsx(s) == IF s # "START" THEN Illegal ELSE "INIT"
inp_cnt(s) == IF s # "INIT" THEN Illegal ELSE "INP_CNT"
input(s) == IF s \notin {"INP_CNT", "INPUT"} THEN Illegal ELSE "INPUT"
input_done(s) == IF s # "INPUT" THEN Illegal ELSE "INPUT_DONE"
input_permutation(s) == IF s # "INPUT_DONE" THEN Illegal ELSE "INPUT_PERM"
input_vins(s) == IF s \notin {"INPUT_PERM", "INPUT_VINS"} THEN Illegal ELSE "INPUT_VINS"
is_input_vins(s) == s = "INPUT_VINS"
set_output(s) == IF s \notin {"INPUT_VINS", "OUTPUT"} THEN Illegal ELSE "OUTPUT"
set_output_done(s) == IF s # "OUTPUT" THEN Illegal ELSE "OUTPUT_DONE"
set_final_message_done(s) == IF s # "OUTPUT_DONE" THEN Illegal ELSE "FINAL_MESSAGE"
set_signature(s) == IF s \notin {"FINAL_MESSAGE", "SIGNATURE"} THEN Illegal ELSE "SIGNATURE"
set_signature_done(s) == IF s # "SIGNATURE" THEN Illegal ELSE "SIGNATURE_DONE"
set_final(s) == IF s # "SIGNATURE_DONE" THEN Illegal ELSE "FINAL"
set_fail(s) == "FAIL"
is_terminal(s) == s \in {"FINAL", "FAIL"}

---------------------------------------------------------------------------
(* TrezorInterface (controller/iface.py) *)

(* transaction_step: TRUE when the call raises.  The steps 100, 300, 400    *)
(* and 700 format '%d/%d' % (sub_step, sub_step_total), a TypeError when    *)
(* either is None.  A "quiet" interface shows nothing and returns.          *)
transaction_step(step, sub_step, sub_step_total) ==
    /\ iface = "TrezorInterface"
    /\ step \in {100, 300, 400, 700}
    /\ (sub_step = None \/ sub_step_total = None)

confirm_transaction_returns_false(tsx_data, usr) ==
    IF usr = "cancel" /\ Len(tsx_data.outputs) > 0 THEN "False" ELSE "True"

(* confirm_transaction: one confirmation per destination; it returns True  *)
(* or, when the user cancels one, the layout raises.                       *)
confirm_transaction(tsx_data, usr) ==
    IF usr = "cancel" /\ Len(tsx_data.outputs) > 0 THEN "raise" ELSE "True"

---------------------------------------------------------------------------
(* Key schedule and sealed values *)

NoMaster == [ctr |-> 0]

compute_sec_keys_wo_ctr(tsx_data, r, ctr, rnd) ==
    [data |-> tsx_data, r |-> r, ctr |-> 0, rnd |-> rnd]

(* compute_sec_keys: key_master = H(H(TsxData || r || ctr) || random)       *)
compute_sec_keys(tsx_data, r, ctr, rnd) ==
    [data |-> tsx_data, r |-> r, ctr |-> ctr, rnd |-> rnd]

key_hmac(o) == [pfx |-> "hmac", master |-> o.key_master]
key_enc(o) == [pfx |-> "enc", master |-> o.key_master]

SubKey(parent, tag, idx) == [parent |-> parent, tag |-> tag, idx |-> idx]
hmac_key_txin(o, idx) == SubKey(key_hmac(o), "txin", idx)
hmac_key_txin_comm_wo_idx(o, idx) == SubKey(key_hmac(o), "txin-comm", 0)
hmac_key_txin_comm(o, idx) == SubKey(key_hmac(o), "txin-comm", idx)
hmac_key_txdst(o, idx) == SubKey(key_hmac(o), "txdest", idx)
hmac_key_txout(o, idx) == SubKey(key_hmac(o), "txout", idx)
enc_key_txin_alpha_wo_idx(o, idx) == SubKey(key_enc(o), "txin-alpha", 0)
enc_key_txin_alpha(o, idx) == SubKey(key_enc(o), "txin-alpha", idx)

(* enc_key_cout(): called without an index, the key is H(key_enc || 'cout') *)
(* and the same for every input; -1 stands for the missing index           *)
enc_key_cout_by_input(o) == SubKey(key_enc(o), "cout", o.inp_idx)

enc_key_cout(o) == SubKey(key_enc(o), "cout", -1)

compute_hmac(key, msg) == [kind |-> "hmac", key |-> key, body |-> msg]
encrypt_pack(key, pt) == [kind |-> "aead", key |-> key, body |-> [pt |-> pt]]
encodeint(x) == [scalar |-> x]
decodeint(b) == b.scalar
ct_equal(a, b) == a = b

NoSubKey == SubKey([pfx |-> "", master |-> NoMaster], "", 0)
Garbage == [kind |-> "garbage", key |-> NoSubKey, body |-> [none |-> TRUE]]
NoSeal == [kind |-> "None", key |-> NoSubKey, body |-> [none |-> TRUE]]

gen_hmac_vini_wo_idx(o, src_entr, vini, idx) ==
    compute_hmac(hmac_key_txin(o, 0), [src |-> src_entr, vini |-> vini])
gen_hmac_vini(o, src_entr, vini, idx) ==
    compute_hmac(hmac_key_txin(o, idx), [src |-> src_entr, vini |-> vini])
gen_hmac_tsxdest_wo_idx(o, dst_entr, idx) ==
    compute_hmac(hmac_key_txdst(o, 0), [dst |-> dst_entr])
gen_hmac_tsxdest(o, dst_entr, idx) ==
    compute_hmac(hmac_key_txdst(o, idx), [dst |-> dst_entr])
gen_hmac_vouti(o, dst_entr, tx_out, idx) ==
    compute_hmac(hmac_key_txout(o, idx), [dst |-> dst_entr, tx_out |-> tx_out])

(* gen_c(mask, amount) = mask*G + amount*H, a binding commitment *)
gen_c(mask, amount) == [mask |-> mask, amount |-> amount]

(* What a hasher has absorbed is the sequence of the fields written to it. *)
Tok(f, v) == [f |-> f, v |-> v]
Num(n) == [n |-> n]
get_digest(absorbed) == [digest_of |-> absorbed]

---------------------------------------------------------------------------
(* TTransactionBuilder (protocol/tsx_sign_builder.py) *)

(* Curve points: a scalar times a base, the base being G or the spend key  *)
(* of an address.                                                          *)
NoPoint == [r_pub_of |-> 0, base |-> ""]
scalarmult_base(a) == [r_pub_of |-> a, base |-> "G"]
point_eq(P, Q) == P = Q
ge_scalarmult(a, P) == [r_pub_of |-> a, base |-> P]

(* __init__ *)
NewBuilder ==
    [alive |-> TRUE, state |-> "START", key_master |-> NoMaster, r |-> 0,
     use_bulletproof |-> FALSE, use_rct |-> TRUE,
     use_simple_rct |-> FALSE, input_count |-> 0, output_count |-> 0, fee |-> 0,
     inp_idx |-> -1, out_idx |-> -1,
     summary_inputs_money |-> 0, summary_outs_money |-> 0,
     input_secrets |-> <<>>, output_pk |-> <<>>, output_sk |-> <<>>,
     sumout |-> 0, sumpouts_alphas |-> 0, subaddresses |-> Some({}),
     source_permutation |-> <<>>,
     tx_prefix_hasher |-> <<>>, tx_prefix_hash |-> None,
     full_message_hasher |-> <<>>, full_message |-> None,
     exp_tx_prefix_hash |-> None,
     r_pub |-> NoPoint, output_change |-> None, need_additional_txkeys |-> FALSE,
     multi_sig |-> FALSE,
     additional_tx_private_keys |-> <<>>, additional_tx_public_keys |-> <<>>]

(* The outcome of a builder method: the exception it raised (NoExc when it *)
(* returned), the builder afterwards and the response it returned.         *)
Ok(o, r) == [exc |-> NoExc, obj |-> o, resp |-> r]
Raise(e) == [exc |-> e, obj |-> NoObj, resp |-> [t |-> "none"]]

in_memory(o) == FALSE /\ o.input_count <= 1
num_inputs(o) == o.input_count
num_dests(o) == o.output_count
get_fee(o) == IF o.fee > 0 THEN o.fee ELSE 0
get_rct_type_full(o) == IF o.use_bulletproof THEN "FullBulletproof" ELSE "Full"
get_rct_type(o) ==
    IF o.use_simple_rct
    THEN (IF o.use_bulletproof THEN "SimpleBulletproof" ELSE "Simple")
    ELSE (IF o.use_bulletproof THEN "FullBulletproof" ELSE "Full")

tprefix_update_wo_count(o, hasher) ==
    hasher \o <<Tok("version", Num(2)), Tok("unlock_time", Num(0))>>

(* _tprefix_update: version, unlock_time, then the number of inputs *)
tprefix_update(o, hasher) ==
    hasher \o <<Tok("version", Num(2)), Tok("unlock_time", Num(0)),
               Tok("vin_size", Num(num_inputs(o)))>>

(* common.is_empty and common.defval_empty of an optional value *)
is_empty(x) == x = None
defval_empty(x, default) == IF is_empty(x) THEN default ELSE x

(* gen_r: the transaction key pair, r fresh or the one given *)
gen_r(o, use_r) == [o EXCEPT !.r = use_r, !.r_pub = scalarmult_base(use_r)]

(* change_address *)
change_address(o) == IF o.output_change # None THEN Some(o.output_change[1].addr) ELSE None

(* check_change: FALSE when it raises *)
check_change_passes(o, outputs) == TRUE

check_change(o, outputs) ==
    \/ change_address(o) = None
    \/ \E i \in 1..Len(outputs) : outputs[i].addr = change_address(o)[1]

(* init_transaction, the transaction keys the host provides: the first is  *)
(* r, the others are the additional private keys                           *)
use_tx_keys(o, tsx_data) ==
    IF Len(tsx_data.use_tx_keys) > 0
    THEN [gen_r(o, decodeint(tsx_data.use_tx_keys[1])) EXCEPT
             !.additional_tx_private_keys =
                 [i \in 1..(Len(tsx_data.use_tx_keys) - 1) |->
                     decodeint(tsx_data.use_tx_keys[i + 1])]]
    ELSE o

(* xmr.sub.addr.classify_subaddresses: the destinations other than the     *)
(* change address are counted, standard ones and subaddresses apart; the   *)
(* last subaddress seen is kept.                                           *)
classify_counts_change(outputs, change_addr) ==
    LET subs == {i \in 1..Len(outputs) : outputs[i].is_subaddress}
        stds == {i \in 1..Len(outputs) : ~outputs[i].is_subaddress}
    IN  [num_stdaddresses |-> Cardinality(stds), num_subaddresses |-> Cardinality(subs),
         single_dest_subaddress |->
             IF subs = {} THEN None
             ELSE Some(outputs[CHOOSE i \in subs : \A j \in subs : j <= i].addr)]

classify_subaddresses(outputs, change_addr) ==
    LET dests == {i \in 1..Len(outputs) : change_addr = None \/ outputs[i].addr # change_addr[1]}
        subs == {i \in dests : outputs[i].is_subaddress}
        stds == {i \in dests : ~outputs[i].is_subaddress}
    IN  [num_stdaddresses |-> Cardinality(stds), num_subaddresses |-> Cardinality(subs),
         single_dest_subaddress |->
             IF subs = {} THEN None
             ELSE Some(outputs[CHOOSE i \in subs : \A j \in subs : j <= i].addr)]

(* init_transaction: R = r*D for a single destination that is a            *)
(* subaddress, r*G otherwise                                               *)
tx_pub_key_base(o, class_res) == o.r_pub

tx_pub_key(o, class_res) ==
    IF class_res.num_stdaddresses = 0 /\ class_res.num_subaddresses = 1
    THEN ge_scalarmult(o.r, class_res.single_dest_subaddress[1])
    ELSE o.r_pub

(* init_transaction: whether every output gets a transaction key of its own *)
need_additional_any_sub(class_res) == class_res.num_subaddresses > 0

need_additional(class_res) ==
    /\ class_res.num_subaddresses > 0
    /\ (class_res.num_stdaddresses > 0 \/ class_res.num_subaddresses > 1)

(* precompute_subaddr with monero.compute_subaddresses, called when the     *)
(* TsxData names an account and minor indices: the table gets an entry,    *)
(* (major, minor), for each of them.                                       *)
precompute_subaddr_none(o, account, indices) == o.subaddresses[1]

precompute_subaddr(o, account, indices) ==
    IF account # None /\ indices # <<>>
    THEN o.subaddresses[1] \cup
             {[major |-> account[1], minor |-> indices[i]] : i \in 1..Len(indices)}
    ELSE o.subaddresses[1]

(* init_transaction *)
init_transaction(o, tsx_data, ctr, r, rnd, usr) ==
    LET s1 == init_tsx(o.state)
        confirmation == confirm_transaction(tsx_data, usr)
        s2 == inp_cnt(s1)
        o1 == gen_r([o EXCEPT !.state = s1], r)
        o1c == [o1 EXCEPT !.output_change = tsx_data.change_dts]
        o1k == use_tx_keys(o1c, tsx_data)
        class_res == classify_subaddresses(tsx_data.outputs, change_address(o1k))
        o2 == [o1k EXCEPT !.input_count = tsx_data.num_inputs,
                         !.output_count = Len(tsx_data.outputs),
                         !.fee = tsx_data.fee,
                         !.use_simple_rct = tsx_data.num_inputs > 1,
                         !.state = s2,
                         !.exp_tx_prefix_hash = defval_empty(tsx_data.exp_tx_prefix_hash, None),
                         !.multi_sig = tsx_data.is_multisig,
                         !.r_pub = tx_pub_key(o1k, class_res),
                         !.need_additional_txkeys = need_additional(class_res),
                         !.key_master = compute_sec_keys(tsx_data, o1k.r, ctr, rnd)]
        o3 == [o2 EXCEPT !.subaddresses =
                             Some(precompute_subaddr(o2, tsx_data.account, tsx_data.minor_indices)),
                         !.tx_prefix_hasher = tprefix_update(o2, @),
                         !.full_message_hasher =
                             <<Tok("init", [simple |-> o2.use_simple_rct]),
                               Tok("type_fee", [type |-> get_rct_type(o2), fee |-> get_fee(o2)])>>]
        hmacs == [idx \in 1..num_dests(o3) |->
                     gen_hmac_tsxdest(o3, tsx_data.outputs[idx], idx - 1)]
    IN  IF s1 = Illegal THEN Raise(Illegal)
        ELSE IF confirmation = "raise" THEN Raise("ActionCancelled")
        ELSE IF confirmation # "True"
            THEN Ok(o1, [t |-> "RespError", status |-> None, reason |-> "rejected", exc |-> NoExc])
        ELSE IF s2 = Illegal THEN Raise(Illegal)
        ELSE IF ~check_change(o1c, tsx_data.outputs)
            THEN Raise("Change address not found in outputs")
        ELSE Ok(o3, [t |-> "InitResp", in_memory |-> in_memory(o3), hmacs |-> hmacs])

(* TxinToKey built by set_input: amount 0 for a RingCT source, the key     *)
(* image of the real output.                                               *)
TxinToKey(src_entr) == [amount |-> 0, k_image |-> [of_output |-> src_entr.real_output]]

(* TxSourceEntry: the amount, the position of the real output in the ring, *)
(* the mask the spender knows, and of the real output its commitment and   *)
(* whether its destination key is the one-time key of this wallet ("own")  *)
(* or some other point.  The entries of a well-formed wallet:              *)
SrcEntries ==
    {[amount |-> a, real_output |-> k, mask |-> encodeint(0), real_commitment |-> gen_c(0, a),
      real_dest |-> "own"] : a \in 1..MaxAmount, k \in 0..RingSize}

Vinis == {TxinToKey(s) : s \in SrcEntries}

(* generate_key_image_helper: the spend secret x of the real output of the *)
(* source entry                                                            *)
generate_key_image_helper(src_entr) == [x_of |-> src_entr]

(* src_entr.outputs[src_entr.real_output][1].dest as a point: the one-time *)
(* key of the secret the helper derives, or a point whose discrete         *)
(* logarithm the helper derives from no entry                              *)
dest_of_real_output(src_entr) ==
    IF src_entr.real_dest = "own"
    THEN scalarmult_base(generate_key_image_helper(src_entr))
    ELSE scalarmult_base([x_of |-> [src_entr EXCEPT !.real_dest = "nobody"]])

(* sign_input, "Private key correctness test": both assertions hold *)
private_key_correct_dest_only(in_sk, src_entr) ==
    point_eq(dest_of_real_output(src_entr), scalarmult_base(in_sk.dest))

private_key_correct(in_sk, src_entr) ==
    /\ point_eq(dest_of_real_output(src_entr), scalarmult_base(in_sk.dest))
    /\ point_eq(src_entr.real_commitment, gen_c(in_sk.mask, src_entr.amount))

(* set_input, its test of the index against the declared number of inputs *)
too_many_inputs_wo_test(o, idx) == FALSE

too_many_inputs(o, idx) == idx >= num_inputs(o)

(* tsx_inputs_done: del self.subaddresses *)
tsx_inputs_done_keeps(o) == o

tsx_inputs_done(o) == [o EXCEPT !.subaddresses = None]

(* set_input, with tsx_inputs_done and commitment *)
set_input(o, src_entr, alpha) ==
    LET s1 == input(o.state)
        idx == o.inp_idx + 1
        all_done == idx + 1 = num_inputs(o)
        s2 == IF all_done THEN input_done(s1) ELSE s1
        vini == TxinToKey(src_entr)
        hmac_vini == gen_hmac_vini(o, src_entr, vini, idx)
        pseudo_out == gen_c(alpha, src_entr.amount)
        o1 == [o EXCEPT !.state = s2, !.inp_idx = idx,
                        !.summary_inputs_money = @ + src_entr.amount,
                        !.input_secrets = Append(@, generate_key_image_helper(src_entr)),
                        !.sumpouts_alphas = IF o.use_simple_rct THEN sc_add(@, alpha) ELSE @,
                        !.subaddresses = IF all_done THEN tsx_inputs_done(o).subaddresses ELSE @]
    IN  IF s1 = Illegal THEN Raise(Illegal)
        ELSE IF transaction_step(STEP_INP, Some(idx), None)
            THEN Raise("%d format: a number is required, not NoneType")
        ELSE IF too_many_inputs(o, idx) THEN Raise("Too many inputs")
        ELSE IF src_entr.real_output >= RingSize
            THEN Raise("real_output index bigger than output_keys.size()")
        ELSE IF o.subaddresses = None
            THEN Raise("'TTransactionBuilder' object has no attribute 'subaddresses'")
        ELSE IF s2 = Illegal THEN Raise(Illegal)
        ELSE Ok(o1, [t |-> "SetInputResp", vini |-> vini, vini_hmac |-> hmac_vini,
                     pseudo_out |-> IF o.use_simple_rct THEN Some(pseudo_out) ELSE None,
                     pseudo_out_hmac |-> IF o.use_simple_rct
                         THEN compute_hmac(hmac_key_txin_comm(o, idx), [pseudo_out |-> pseudo_out])
                         ELSE NoSeal,
                     alpha_enc |-> IF o.use_simple_rct
                         THEN encrypt_pack(enc_key_txin_alpha(o, idx), encodeint(alpha))
                         ELSE NoSeal])

(* common.apply_permutation with the swapper of _tsx_inputs_permutation:   *)
(* position i of the result holds what was at position permutation[i].     *)
IsPermutation(permutation, n) ==
    /\ Len(permutation) = n
    /\ \A v \in 0..(n - 1) : \E i \in 1..n : permutation[i] = v

apply_permutation_none(permutation, xs) == xs

apply_permutation(permutation, xs) ==
    [i \in 1..Len(xs) |-> xs[permutation[i] + 1]]

tsx_inputs_permutation_repeats(o, permutation) ==
    LET s1 == input_permutation(o.state)
        o1 == [o EXCEPT !.state = s1, !.source_permutation = permutation,
                        !.input_secrets = apply_permutation(permutation, @),
                        !.inp_idx = -1]
    IN  IF transaction_step(STEP_PERM, None, None)
            THEN Raise("%d format: a number is required, not NoneType")
        ELSE IF s1 = Illegal THEN Raise(Illegal)
        ELSE IF \/ Len(permutation) # Len(o.input_secrets)
                \/ \E i \in 1..Len(permutation) : permutation[i] >= Len(o.input_secrets)
            THEN Raise("list index out of range")
        ELSE Ok(o1, [t |-> "InputsPermutationResp"])

(* tsx_inputs_permutation with _tsx_inputs_permutation *)
tsx_inputs_permutation(o, permutation) ==
    LET s1 == input_permutation(o.state)
        o1 == [o EXCEPT !.state = s1, !.source_permutation = permutation,
                        !.input_secrets = apply_permutation(permutation, @),
                        !.inp_idx = -1]
    IN  IF transaction_step(STEP_PERM, None, None)
            THEN Raise("%d format: a number is required, not NoneType")
        ELSE IF s1 = Illegal THEN Raise(Illegal)
        ELSE IF ~IsPermutation(permutation, Len(o.input_secrets))
            THEN Raise("list index out of range")
        ELSE Ok(o1, [t |-> "InputsPermutationResp"])

(* hash_vini_pseudo_out: the outcome is the exception and the two hashers  *)
hash_vini_pseudo_out(o, vini, inp_idx, pseudo_out, pseudo_out_hmac) ==
    LET prefix == Append(o.tx_prefix_hasher, Tok("vin", vini))
        idx == o.source_permutation[inp_idx + 1]
        pseudo_out_hmac_comp ==
            compute_hmac(hmac_key_txin_comm(o, idx), [pseudo_out |-> pseudo_out[1]])
    IN  IF ~o.use_simple_rct
            THEN [exc |-> NoExc, prefix |-> prefix, mlsag |-> o.full_message_hasher]
        ELSE IF pseudo_out = None
            THEN [exc |-> "can't concat NoneType to bytes", prefix |-> prefix,
                  mlsag |-> o.full_message_hasher]
        ELSE IF ~ct_equal(pseudo_out_hmac, pseudo_out_hmac_comp)
            THEN [exc |-> "HMAC invalid for pseudo outs", prefix |-> prefix,
                  mlsag |-> o.full_message_hasher]
        ELSE [exc |-> NoExc, prefix |-> prefix,
              mlsag |-> Append(o.full_message_hasher, Tok("pseudo_out", pseudo_out[1]))]

(* input_vini *)
input_vini(o, src_entr, vini, hmac, pseudo_out, pseudo_out_hmac) ==
    LET s1 == input_vins(o.state)
        idx == o.inp_idx + 1
        hmac_vini == gen_hmac_vini(o, src_entr, vini, o.source_permutation[idx + 1])
        o1 == [o EXCEPT !.state = s1, !.inp_idx = idx]
        h == hash_vini_pseudo_out(o1, vini, idx, pseudo_out, pseudo_out_hmac)
    IN  IF transaction_step(STEP_VINI, Some(o.inp_idx + 1), None)
            THEN Raise("%d format: a number is required, not NoneType")
        ELSE IF o.inp_idx >= num_inputs(o) THEN Raise("Too many inputs")
        ELSE IF s1 = Illegal THEN Raise(Illegal)
        ELSE IF idx >= Len(o.source_permutation) THEN Raise("list index out of range")
        ELSE IF ~ct_equal(hmac_vini, hmac) THEN Raise("HMAC is not correct")
        ELSE IF h.exc # NoExc THEN Raise(h.exc)
        ELSE Ok([o1 EXCEPT !.tx_prefix_hasher = h.prefix, !.full_message_hasher = h.mlsag],
                [t |-> "InputViniResp"])

(* ring_ct.prove_range(amount, last_mask): the mask is last_mask when one  *)
(* is given and fresh otherwise; C commits to (mask, amount).              *)
prove_range(amount, last_mask, fresh_mask) ==
    LET mask == IF last_mask = None THEN fresh_mask ELSE last_mask[1]
    IN  [C |-> gen_c(mask, amount), mask |-> mask, rsig |-> [range_of |-> gen_c(mask, amount)]]

range_proof_fresh_last(o, idx, dest_pub_key, amount, amount_key, fresh_mask) ==
    LET p == prove_range(amount, None, fresh_mask)
    IN  [rsig |-> p.rsig, mask |-> p.mask,
         out_pk |-> [dest |-> dest_pub_key, mask |-> p.C],
         ecdh_info |-> [mask |-> p.mask, amount |-> amount, key |-> amount_key]]

(* range_proof: the mask of the last output closes the mask sum *)
range_proof(o, idx, dest_pub_key, amount, amount_key, fresh_mask) ==
    LET is_last == idx + 1 = num_dests(o)
        last_mask == IF ~is_last \/ ~o.use_simple_rct
                     THEN None ELSE Some(sc_sub(o.sumpouts_alphas, o.sumout))
        p == prove_range(amount, last_mask, fresh_mask)
    IN  [rsig |-> p.rsig, mask |-> p.mask,
         out_pk |-> [dest |-> dest_pub_key, mask |-> p.C],
         ecdh_info |-> [mask |-> p.mask, amount |-> amount, key |-> amount_key]]

(* set_out1, its test that InputVinI has been through every input *)
inputs_left_wo_test(o) == FALSE

inputs_left(o) == is_input_vins(o.state) /\ o.inp_idx + 1 # num_inputs(o)

(* The TxOut of set_out1: amount 0 and the one-time key of the destination, *)
(* derived from the view key, the tx secret r and the output index.        *)
TxOutOf(derivation, dst_entr, idx) ==
    [amount |-> 0,
     target |-> [key |-> [derivation |-> derivation, idx |-> idx, spend |-> dst_entr.addr]]]

(* monero.generate_key_derivation: the shared secret of a scalar and a     *)
(* point. For a destination it is priv * A_view; for the change it is      *)
(* a * R, with a the view key of the credentials.                          *)
DerivationTo(addr, priv) == [view |-> addr, r |-> priv, base |-> ""]
DerivationChange(r_pub) == [view |-> "creds", r |-> r_pub.r_pub_of, base |-> r_pub.base]

(* The TxOut of a destination that is neither the change nor a subaddress  *)
TxOut(r, dst_entr, idx) == TxOutOf(DerivationTo(dst_entr.addr, r), dst_entr, idx)

(* tsx_helper.add_tx_pub_key_to_extra and                                   *)
(* add_additional_tx_pub_keys_to_extra: tx.extra is a sequence of tagged   *)
(* fields, the transaction public key under tag 1, then the additional     *)
(* public keys under tag 4 when there are any to add.                      *)
add_tx_pub_key_to_extra(extra, pub_key) ==
    Append(extra, [tag |-> 1, keys |-> <<pub_key>>])
add_additional_tx_pub_keys_to_extra(extra, pub_enc) ==
    Append(extra, [tag |-> 4, keys |-> pub_enc])
ExtraOf(r_pub, additional) ==
    LET extra == add_tx_pub_key_to_extra(<<>>, r_pub)
    IN  IF additional = None THEN extra
        ELSE add_additional_tx_pub_keys_to_extra(extra, additional[1])

(* The tx.extra of a transaction without additional keys: r*G alone *)
Extra(r) == ExtraOf(scalarmult_base(r), None)

(* set_out1, the additional transaction key of the output: the key the     *)
(* host provided for this index when as many keys are stored as there are  *)
(* destinations, a fresh one otherwise, which is then stored.              *)
additional_key_none(o, dst_entr, idx, fresh_key) ==
    [priv |-> fresh_key, o |-> o]

additional_key(o, dst_entr, idx, fresh_key) ==
    LET use_provided == num_dests(o) = Len(o.additional_tx_private_keys)
        additional_txkey_priv ==
            IF use_provided THEN o.additional_tx_private_keys[idx + 1] ELSE fresh_key
        additional_txkey ==
            IF dst_entr.is_subaddress
            THEN ge_scalarmult(additional_txkey_priv, dst_entr.addr)
            ELSE scalarmult_base(additional_txkey_priv)
    IN  [priv |-> additional_txkey_priv,
         o |-> [o EXCEPT !.additional_tx_public_keys = Append(@, additional_txkey),
                         !.additional_tx_private_keys =
                             IF use_provided THEN @ ELSE Append(@, additional_txkey_priv)]]

(* set_out1 *)
set_out1(o, dst_entr, dst_entr_hmac, fresh_mask, fresh_key) ==
    LET s1 == set_output(o.state)
        idx == o.out_idx + 1
        change_addr == change_address(o)
        ak == IF o.need_additional_txkeys
              THEN additional_key(o, dst_entr, idx, fresh_key)
              ELSE [priv |-> 0, o |-> o]
        deriv_priv == IF dst_entr.is_subaddress /\ o.need_additional_txkeys
                      THEN ak.priv ELSE o.r
        dst_entr_hmac_computed == gen_hmac_tsxdest(o, dst_entr, idx)
        prefix0 == IF idx = 0
                   THEN Append(o.tx_prefix_hasher, Tok("vout_size", Num(num_dests(o))))
                   ELSE o.tx_prefix_hasher
        derivation == IF change_addr # None /\ dst_entr.addr = change_addr[1]
                      THEN DerivationChange(o.r_pub)
                      ELSE DerivationTo(dst_entr.addr, deriv_priv)
        amount_key == [derivation |-> derivation, idx |-> idx]
        tx_out == TxOutOf(derivation, dst_entr, idx)
        tk == tx_out.target
        rp == range_proof(o, idx, tk.key, dst_entr.amount, amount_key, fresh_mask)
        o1 == [ak.o EXCEPT !.state = s1, !.out_idx = idx,
                        !.summary_outs_money = @ + dst_entr.amount,
                        !.tx_prefix_hasher = Append(prefix0, Tok("vout", tx_out)),
                        !.sumout = sc_add(@, rp.mask),
                        !.output_sk = Append(@, [mask |-> rp.mask]),
                        !.output_pk = Append(@, rp.out_pk),
                        !.full_message_hasher =
                            @ \o <<Tok("rsig", rp.rsig), Tok("ecdh", rp.ecdh_info)>>]
    IN  IF transaction_step(STEP_OUT, Some(o.out_idx + 1), None)
            THEN Raise("%d format: a number is required, not NoneType")
        ELSE IF inputs_left(o) THEN Raise("Invalid number of inputs")
        ELSE IF s1 = Illegal THEN Raise(Illegal)
        ELSE IF ~ct_equal(dst_entr_hmac, dst_entr_hmac_computed) THEN Raise("HMAC invalid")
        ELSE Ok(o1, [t |-> "SetOutputResp", tx_out |-> tx_out,
                     vouti_hmac |-> gen_hmac_vouti(o, dst_entr, tx_out, idx),
                     rsig |-> rp.rsig, out_pk |-> rp.out_pk, ecdh_info |-> rp.ecdh_info])

(* all_out1_set, its test that every declared output has been set *)
invalid_out_num_wo_test(o) == FALSE

invalid_out_num(o) == o.out_idx + 1 # num_dests(o)

(* all_out1_set, its fee test *)
fee_invalid_wo_test(o) == FALSE

fee_invalid(o) == o.fee # o.summary_inputs_money - o.summary_outs_money

(* all_out1_set, its test of the prefix hash the host expects (multisig) *)
prefix_hash_mismatch_wo_test(o, tx_prefix_hash) == FALSE

prefix_hash_mismatch(o, tx_prefix_hash) ==
    ~is_empty(o.exp_tx_prefix_hash) /\ ~ct_equal(o.exp_tx_prefix_hash[1], tx_prefix_hash)

TxPrefixInvalid == "Tx prefix invalid"

(* all_out1_set *)
all_out1_set(o) ==
    LET s1 == set_output_done(o.state)
        extra == ExtraOf(o.r_pub, IF o.need_additional_txkeys
                                  THEN Some(o.additional_tx_public_keys) ELSE None)
        prefix == Append(o.tx_prefix_hasher, Tok("extra", extra))
        tx_prefix_hash == get_digest(prefix)
        o1 == [o EXCEPT !.state = s1, !.tx_prefix_hasher = <<>>,
                        !.additional_tx_public_keys = <<>>,
                        !.tx_prefix_hash = Some(tx_prefix_hash),
                        !.full_message_hasher = Append(@, Tok("message", tx_prefix_hash))]
    IN  IF s1 = Illegal THEN Raise(Illegal)
        ELSE IF transaction_step(STEP_ALL_OUT, None, None)
            THEN Raise("%d format: a number is required, not NoneType")
        ELSE IF invalid_out_num(o) THEN Raise("Invalid out num")
        ELSE IF o.use_simple_rct /\ o.sumout # o.sumpouts_alphas THEN Raise("Assertion error")
        ELSE IF fee_invalid(o) THEN Raise("Fee invalid")
        ELSE IF o.summary_outs_money > o.summary_inputs_money
            THEN Raise("Transaction inputs money less than outputs money")
        ELSE IF prefix_hash_mismatch(o, tx_prefix_hash) THEN Raise(TxPrefixInvalid)
        ELSE Ok(o1, [t |-> "AllOutSetResp", extra |-> extra, tx_prefix_hash |-> tx_prefix_hash,
                     rv |-> [txn_fee |-> get_fee(o), message |-> tx_prefix_hash,
                             rv_type |-> get_rct_type(o)]])

tsx_mlsag_out_pk_none(o) == <<>>

(* tsx_mlsag_out_pk: set_out_pk for every stored out_pk *)
tsx_mlsag_out_pk(o) == [i \in 1..Len(o.output_pk) |-> Tok("out_pk", o.output_pk[i])]

(* mlsag_done with rctsig_base_done and get_digest *)
mlsag_done(o) ==
    LET s1 == set_final_message_done(o.state)
        absorbed == o.full_message_hasher \o tsx_mlsag_out_pk(o)
        full_message == get_digest(absorbed)
        o1 == [o EXCEPT !.state = s1, !.out_idx = -1, !.inp_idx = -1,
                        !.full_message_hasher = <<>>, !.full_message = Some(full_message)]
    IN  IF s1 = Illegal THEN Raise(Illegal)
        ELSE IF transaction_step(STEP_MLSAG, None, None)
            THEN Raise("%d format: a number is required, not NoneType")
        ELSE IF num_dests(o) # Len(o.output_pk) THEN Raise("Invalid number of ecdh")
        ELSE Ok(o1, [t |-> "MlsagDoneResp", full_message_hash |-> full_message])

(* chacha_poly.decrypt_pack(key, blob): the plaintext sealed under this    *)
(* key, or None when the tag does not verify.                              *)
decrypt_pack(key, blob) ==
    IF blob.kind = "aead" /\ blob.key = key THEN Some(blob.body.pt) ELSE None

(* sign_input, its test that the input signed is the last one *)
all_signed_after_first(o, idx) == TRUE

all_signed(o, idx) == idx + 1 = num_inputs(o)

(* sign_input *)
sign_input(o, src_entr, vini, hmac_vini, pseudo_out, pseudo_out_hmac, alpha) ==
    LET s1 == set_signature(o.state)
        idx == o.inp_idx + 1
        inv_idx == o.source_permutation[idx + 1]
        hmac_vini_comp == gen_hmac_vini(o, src_entr, vini, inv_idx)
        pseudo_out_hmac_comp ==
            compute_hmac(hmac_key_txin_comm(o, inv_idx), [pseudo_out |-> pseudo_out[1]])
        alpha_c == decrypt_pack(enc_key_txin_alpha(o, inv_idx), alpha)
        in_sk == [dest |-> o.input_secrets[idx + 1], mask |-> decodeint(src_entr.mask)]
        mg == [message |-> o.full_message, in_sk |-> in_sk, index |-> src_entr.real_output,
               alpha |-> IF o.use_simple_rct THEN Some(decodeint(alpha_c[1])) ELSE None,
               pseudo_out |-> IF o.use_simple_rct THEN pseudo_out ELSE None]
        s2 == IF all_signed(o, idx) THEN set_signature_done(s1) ELSE s1
        o1 == [o EXCEPT !.state = s2, !.inp_idx = idx]
    IN  IF s1 = Illegal THEN Raise(Illegal)
        ELSE IF transaction_step(STEP_SIGN, None, None)
            THEN Raise("%d format: a number is required, not NoneType")
        ELSE IF idx >= num_inputs(o) THEN Raise("Invalid ins")
        ELSE IF o.use_simple_rct /\ alpha = NoSeal THEN Raise("Inconsistent1")
        ELSE IF o.use_simple_rct /\ pseudo_out = None THEN Raise("Inconsistent2")
        ELSE IF idx >= 1 /\ ~o.use_simple_rct THEN Raise("Inconsistent3")
        ELSE IF ~ct_equal(hmac_vini_comp, hmac_vini) THEN Raise("HMAC is not correct")
        ELSE IF o.use_simple_rct /\ ~ct_equal(pseudo_out_hmac_comp, pseudo_out_hmac)
            THEN Raise("HMAC is not correct")
        ELSE IF o.use_simple_rct /\ alpha_c = None THEN Raise("Authentication failed")
        ELSE IF src_entr.real_output >= RingSize THEN Raise("list index out of range")
        ELSE IF ~private_key_correct(in_sk, src_entr) THEN Raise("Assertion error")
        ELSE IF s2 = Illegal THEN Raise(Illegal)
        ELSE Ok(o1, [t |-> "SignInputResp", signature |-> mg,
                     cout |-> IF o.multi_sig
                              THEN encrypt_pack(enc_key_cout(o1), encodeint([msc_of |-> mg]))
                              ELSE NoSeal])

(* misc.compute_tx_key: the key is derived from the spend key, the prefix  *)
(* hash and two fresh values, salt and rand_mult, which go to the host     *)
compute_tx_key(spend_key_private, tx_prefix_hash) ==
    [tx_key |-> [spend_key_of |-> spend_key_private, tx_prefix_hash |-> tx_prefix_hash],
     salt |-> [fresh |-> "salt"], rand_mult |-> [fresh |-> "rand_mult"]]

(* final_msg, the keys it seals: r, then the additional private keys *)
key_buff_r(o) == [r |-> o.r, additional |-> <<>>]

key_buff(o) == [r |-> o.r, additional |-> o.additional_tx_private_keys]

(* final_msg *)
final_msg(o) ==
    LET s1 == set_final(o.state)
        k == compute_tx_key("creds", o.tx_prefix_hash)
        tx_key == k.tx_key
    IN  IF s1 = Illegal THEN Raise(Illegal)
        ELSE Ok([o EXCEPT !.state = s1],
                [t |-> "FinalResp",
                 cout_key |-> IF o.multi_sig THEN enc_key_cout(o) ELSE NoSubKey,
                 salt |-> k.salt, rand_mult |-> k.rand_mult,
                 tx_enc_keys |-> encrypt_pack(tx_key, key_buff(o))])

---------------------------------------------------------------------------
(* TsxSigner (protocol/tsx_sign.py) *)

MoneroRespError(status, exc) ==
    [t |-> "RespError", status |-> status, reason |-> "", exc |-> exc]

(* wrapper.exc2str: the text of the exception *)
exc2str(e) == e

tsx_exc_handler_wo_count(e) ==
    /\ err_ctr' = err_ctr
    /\ purge' = TRUE
    /\ tsx_obj' = NoObj
    /\ ui_errors' = ui_errors + 1

tsx_exc_handler_keeps_obj(e) ==
    /\ err_ctr' = err_ctr + 1
    /\ purge' = TRUE
    /\ tsx_obj' = tsx_obj
    /\ ui_errors' = ui_errors + 1

(* tsx_exc_handler *)
tsx_exc_handler(e) ==
    /\ err_ctr' = err_ctr + 1
    /\ purge' = TRUE
    /\ tsx_obj' = NoObj
    /\ ui_errors' = ui_errors + 1

(* The sealed values of a response that later requests take back *)
Sealed(r) ==
    IF r.t = "InitResp" THEN {r.hmacs[i] : i \in 1..Len(r.hmacs)}
    ELSE IF r.t = "SetInputResp"
        THEN {r.vini_hmac, r.pseudo_out_hmac, r.alpha_enc} \ {NoSeal}
    ELSE {}

(* What `accepted` keeps of a request the live transaction object has     *)
(* answered: the stage, the entries the request carried and, of SetInput, *)
(* the vin, its HMAC and the pseudo output of the response.               *)
Entry(stage, src_entr, vini, vini_hmac, pseudo_out, dst_entr, tsx_data) ==
    [stage |-> stage, src_entr |-> src_entr, vini |-> vini, vini_hmac |-> vini_hmac,
     pseudo_out |-> pseudo_out, dst_entr |-> dst_entr, tsx_data |-> tsx_data]

StageOnly(stage) == Entry(stage, None, None, None, None, None, None)

(* apps/monero/__init__.py.  Holder has a slot for the signer and a slot   *)
(* for the key image sync, both empty at first.  dispatch_MoneroTsxSign    *)
(* hands the holder to layout_sign_tx, which puts a TsxSigner into         *)
(* ctx_sign when there is none and calls its sign(); sign() itself is not  *)
(* given the holder.                                                       *)
NewHolder == [ctx_sign |-> None, ctx_ki |-> None]

dispatch_MoneroTsxSign_new_holder ==
    holder' = [ctx_sign |-> Some("TsxSigner"), ctx_ki |-> None]

dispatch_MoneroTsxSign ==
    holder' = [holder EXCEPT !.ctx_sign = Some("TsxSigner")]

(* The body of every tsx_* entry point: the builder's answer is returned,  *)
(* and an exception goes to tsx_exc_handler and becomes a RespError.       *)
Returned(out, entry, status) ==
    IF out.exc # NoExc
    THEN /\ err_ctr < MaxErr
         /\ tsx_exc_handler(out.exc)
         /\ resp' = MoneroRespError(status, exc2str(out.exc))
         /\ host' = host
         /\ accepted' = <<>>
    ELSE /\ tsx_obj' = out.obj
         /\ resp' = out.resp
         /\ host' = host \cup Sealed(out.resp)
         /\ accepted' = Append(accepted, entry)
         /\ UNCHANGED <<err_ctr, purge, ui_errors>>

(* A method called on tsx_obj = None raises AttributeError *)
NoneCall == Raise("'NoneType' object has no attribute")

(* What the host can put into a request.  Arguments are enumerated only    *)
(* where the handler gets to read them: with no transaction object, or at  *)
(* a stage TState refuses, every argument gives the same outcome.          *)
HostSeals(tag) == {h \in host : h.key.tag = tag} \cup {Garbage}
PseudoOuts == {None} \cup {Some(gen_c(a, m)) : a \in Scalars, m \in 1..MaxAmount}
PermInputs == UNION {[1..k -> 0..(MaxInputs - 1)] : k \in 0..MaxInputs}
Reads(next_state) == tsx_obj.alive /\ next_state # Illegal
Args(S, read) == IF read THEN S ELSE {CHOOSE x \in S : TRUE}

(* The check of HMAC(T_in,i || vin_i) that input_vini and sign_input make  *)
(* before they read the pseudo output, its HMAC and alpha.                 *)
ViniVerifies(o, idx, src_entr, vini, vini_hmac) ==
    ct_equal(gen_hmac_vini(o, src_entr, vini, o.source_permutation[idx + 1]), vini_hmac)

tsx_init_keeps_obj(tsx_data, r, rnd, usr) ==
    LET kept == IF tsx_obj.alive THEN [tsx_obj EXCEPT !.state = "START"] ELSE NewBuilder
        out == init_transaction(kept, tsx_data, tsx_ctr + 1, r, rnd, usr)
    IN  /\ tsx_ctr' = tsx_ctr + 1
        /\ IF out.exc # NoExc
           THEN /\ err_ctr < MaxErr
                /\ tsx_exc_handler(out.exc)
                /\ resp' = MoneroRespError(None, exc2str(out.exc))
                /\ host' = host
                /\ accepted' = <<>>
           ELSE /\ tsx_obj' = out.obj
                /\ resp' = out.resp
                /\ host' = host \cup Sealed(out.resp)
                /\ accepted' = IF out.resp.t = "RespError" THEN <<>>
                               ELSE <<Entry("Init", None, None, None, None, None, Some(tsx_data))>>
                /\ UNCHANGED <<err_ctr, purge, ui_errors>>

tsx_init_counts_answered(tsx_data, r, rnd, usr) ==
    LET out == init_transaction(NewBuilder, tsx_data, tsx_ctr + 1, r, rnd, usr)
    IN  /\ tsx_ctr' = IF out.exc # NoExc THEN tsx_ctr ELSE tsx_ctr + 1
        /\ IF out.exc # NoExc
           THEN /\ err_ctr < MaxErr
                /\ tsx_exc_handler(out.exc)
                /\ resp' = MoneroRespError(None, exc2str(out.exc))
                /\ host' = host
                /\ accepted' = <<>>
           ELSE /\ tsx_obj' = out.obj
                /\ resp' = out.resp
                /\ host' = host \cup Sealed(out.resp)
                /\ accepted' = IF out.resp.t = "RespError" THEN <<>>
                               ELSE <<Entry("Init", None, None, None, None, None, Some(tsx_data))>>
                /\ UNCHANGED <<err_ctr, purge, ui_errors>>

(* tsx_init *)
tsx_init(tsx_data, r, rnd, usr) ==
    LET out == init_transaction(NewBuilder, tsx_data, tsx_ctr + 1, r, rnd, usr)
    IN  /\ tsx_ctr' = tsx_ctr + 1
        /\ IF out.exc # NoExc
           THEN /\ err_ctr < MaxErr
                /\ tsx_exc_handler(out.exc)
                /\ resp' = MoneroRespError(None, exc2str(out.exc))
                /\ host' = host
                /\ accepted' = <<>>
           ELSE /\ tsx_obj' = out.obj
                /\ resp' = out.resp
                /\ host' = host \cup Sealed(out.resp)
                /\ accepted' = IF out.resp.t = "RespError" THEN <<>>
                               ELSE <<Entry("Init", None, None, None, None, None, Some(tsx_data))>>
                /\ UNCHANGED <<err_ctr, purge, ui_errors>>

(* sign, msg.init: setup, which may raise, then tsx_init *)
sign_init(tsx_data, r, rnd, usr, creds_ok) ==
    /\ tsx_ctr < (IF iface = "quiet" THEN MaxTsxQuiet ELSE MaxTsx)
    /\ req' = "init"
    /\ UNCHANGED <<iface, lab>>
    /\ dispatch_MoneroTsxSign
    /\ IF ~creds_ok
       THEN /\ resp' = [t |-> "Raised", exc |-> "monero_get_creds"]
            /\ UNCHANGED <<tsx_ctr, err_ctr, purge, tsx_obj, creds, ui_errors, host, accepted>>
       ELSE /\ creds' = "creds"
            /\ tsx_init(tsx_data, r, rnd, usr)

(* sign, msg.set_input: tsx_set_input *)
tsx_set_input(src_entr, alpha) ==
    /\ req' = "set_input"
    /\ LET out == IF tsx_obj.alive THEN set_input(tsx_obj, src_entr, alpha) ELSE NoneCall
       IN  Returned(out, Entry("SetInput", Some(src_entr), Some(out.resp.vini),
                               Some(out.resp.vini_hmac), out.resp.pseudo_out, None, None),
                    None)
    /\ UNCHANGED <<tsx_ctr, creds, iface, lab>>
    /\ dispatch_MoneroTsxSign

(* sign, msg.input_permutation *)
tsx_inputs_permutation_req(perm) ==
    /\ req' = "input_permutation"
    /\ Returned(IF tsx_obj.alive THEN tsx_inputs_permutation(tsx_obj, perm) ELSE NoneCall,
                StageOnly("InputsPermutation"), None)
    /\ UNCHANGED <<tsx_ctr, creds, iface, lab>>
    /\ dispatch_MoneroTsxSign

(* sign, msg.input_vini: tsx_input_vini *)
tsx_input_vini(src_entr, vini, vini_hmac, pseudo_out, pseudo_out_hmac) ==
    /\ req' = "input_vini"
    /\ Returned(IF tsx_obj.alive
                THEN input_vini(tsx_obj, src_entr, vini, vini_hmac, pseudo_out, pseudo_out_hmac)
                ELSE NoneCall,
                Entry("InputVinI", Some(src_entr), Some(vini), Some(vini_hmac), pseudo_out,
                      None, None),
                None)
    /\ UNCHANGED <<tsx_ctr, creds, iface, lab>>
    /\ dispatch_MoneroTsxSign

(* sign, msg.set_output: tsx_set_output1 *)
tsx_set_output1(dst_entr, dst_entr_hmac, fresh_mask, fresh_key) ==
    /\ req' = "set_output"
    /\ Returned(IF tsx_obj.alive
                THEN set_out1(tsx_obj, dst_entr, dst_entr_hmac, fresh_mask, fresh_key) ELSE NoneCall,
                Entry("SetOutput", None, None, None, None, Some(dst_entr), None), None)
    /\ UNCHANGED <<tsx_ctr, creds, iface, lab>>
    /\ dispatch_MoneroTsxSign

(* sign, msg.all_out_set: tsx_all_out1_set *)
tsx_all_out1_set ==
    /\ req' = "all_out_set"
    /\ LET out == IF tsx_obj.alive THEN all_out1_set(tsx_obj) ELSE NoneCall
       IN  Returned(out, StageOnly("AllOutputsSet"),
                    IF out.exc = TxPrefixInvalid THEN Some(10) ELSE None)
    /\ UNCHANGED <<tsx_ctr, creds, iface, lab>>
    /\ dispatch_MoneroTsxSign

(* sign, msg.mlsag_done: tsx_mlsag_done *)
tsx_mlsag_done ==
    /\ req' = "mlsag_done"
    /\ Returned(IF tsx_obj.alive THEN mlsag_done(tsx_obj) ELSE NoneCall,
                StageOnly("MlsagDone"), None)
    /\ UNCHANGED <<tsx_ctr, creds, iface, lab>>
    /\ dispatch_MoneroTsxSign

(* sign, msg.sign_input: tsx_sign_input *)
tsx_sign_input(src_entr, vini, vini_hmac, pseudo_out, pseudo_out_hmac, alpha) ==
    /\ req' = "sign_input"
    /\ Returned(IF tsx_obj.alive
                THEN sign_input(tsx_obj, src_entr, vini, vini_hmac, pseudo_out,
                                pseudo_out_hmac, alpha)
                ELSE NoneCall,
                Entry("SignInput", Some(src_entr), Some(vini), Some(vini_hmac), pseudo_out,
                      None, None),
                None)
    /\ UNCHANGED <<tsx_ctr, creds, iface, lab>>
    /\ dispatch_MoneroTsxSign

(* sign, msg.final_msg: tsx_sign_final *)
tsx_sign_final ==
    /\ req' = "final_msg"
    /\ Returned(IF tsx_obj.alive THEN final_msg(tsx_obj) ELSE NoneCall,
                StageOnly("Final"), None)
    /\ UNCHANGED <<tsx_ctr, creds, iface, lab>>
    /\ dispatch_MoneroTsxSign

(* sign, no sub-message set: ValueError('Unknown message') leaves sign()   *)
sign_unknown ==
    /\ req' = "none"
    /\ resp' = [t |-> "Raised", exc |-> "Unknown message"]
    /\ UNCHANGED <<tsx_ctr, err_ctr, purge, tsx_obj, creds, iface, ui_errors, host, accepted, lab>>
    /\ dispatch_MoneroTsxSign

---------------------------------------------------------------------------
(* The signer as the host drives it *)

TxSecrets == 1..(ScalarMod - 1)      \* gen_r: a random scalar
KeyRandoms == {0}                    \* the random scalar mixed into key_master

(* The one-shot serialization of a TransactionPrefixExtraBlob: its fields  *)
(* in the order of MFIELDS, a container as its size and then its elements. *)
serialize_prefix(tx) ==
    <<Tok("version", Num(tx.version)), Tok("unlock_time", Num(tx.unlock_time)),
      Tok("vin_size", Num(Len(tx.vin)))>>
        \o [i \in 1..Len(tx.vin) |-> Tok("vin", tx.vin[i])]
        \o <<Tok("vout_size", Num(Len(tx.vout)))>>
        \o [j \in 1..Len(tx.vout) |-> Tok("vout", tx.vout[j])]
        \o <<Tok("extra", tx.extra)>>

(* The prefix hashes a multisig host may expect: none, or the hash of the  *)
(* transaction of one input and one output of amount 1 made with secret r. *)
(* A TsxData of TsxDatas expects none; SpecPrefixHash draws the expected   *)
(* hash from ExpPrefixHashes.                                              *)
OneInOneOut(r) ==
    [version |-> 2, unlock_time |-> 0,
     vin |-> <<TxinToKey([amount |-> 1, real_output |-> 0])>>,
     vout |-> <<TxOut(r, [amount |-> 1, addr |-> "A", is_subaddress |-> FALSE], 0)>>,
     extra |-> Extra(r)]
ExpPrefixHashes ==
    {None} \cup {Some(get_digest(serialize_prefix(OneInOneOut(r)))) : r \in TxSecrets}

TsxDatas ==
    [num_inputs : 0..MaxInputs, outputs : OutputLists, fee : 0..MaxFee,
     exp_tx_prefix_hash : {None}, change_dts : {None}, use_tx_keys : {<<>>},
     account : {Some(0)}, minor_indices : {<<0, 1>>}, is_multisig : {FALSE}]

TsxDatasExpecting ==
    [num_inputs : 0..MaxInputs, outputs : OutputLists, fee : 0..MaxFee,
     exp_tx_prefix_hash : ExpPrefixHashes, change_dts : {None}, use_tx_keys : {<<>>},
     account : {Some(0)}, minor_indices : {<<0, 1>>}, is_multisig : {FALSE}]

NoLab == [t |-> "none"]

InitCommon ==
    /\ tsx_ctr = 0
    /\ err_ctr = 0
    /\ purge = FALSE
    /\ tsx_obj = NoObj
    /\ creds = "none"
    /\ ui_errors = 0
    /\ resp = [t |-> "none"]
    /\ host = {}
    /\ accepted = <<>>
    /\ req = "none"
    /\ lab = NoLab
    /\ holder = NewHolder

(* get_iface(ctx) gives a TrezorInterface *)
Init == InitCommon /\ iface = "TrezorInterface"

(* The same signer, also with an interface whose notifications return:    *)
(* behind TrezorInterface.transaction_step no request after Init gets     *)
(* past its first progress notification.                                  *)
InitQuietUI == InitCommon /\ iface \in {"TrezorInterface", "quiet"}

ReqInitOf(Datas) ==
    \E creds_ok \in BOOLEAN :
    \E tsx_data \in Args(Datas, creds_ok), usr \in Args({"confirm", "cancel"}, creds_ok) :
    \E r \in Args(TxSecrets, creds_ok), rnd \in Args(KeyRandoms, creds_ok) :
        sign_init(tsx_data, r, rnd, usr, creds_ok)

ReqInit == ReqInitOf(TsxDatas)

(* Init of a signer that handles MaxTsxQuiet Init requests, whatever its   *)
(* interface                                                               *)
ReqInitOnce == tsx_ctr < MaxTsxQuiet /\ ReqInit

(* Init whose TsxData may name the prefix hash the host expects *)
ReqInitExpecting == tsx_ctr < MaxTsxQuiet /\ ReqInitOf(TsxDatasExpecting)

ReqSetInputOf(Entries) ==
    \E src_entr \in Args(Entries, Reads(input(tsx_obj.state))) :
    \E alpha \in Args(Scalars, Reads(input(tsx_obj.state)) /\ tsx_obj.use_simple_rct) :
        tsx_set_input(src_entr, alpha)

ReqSetInput == ReqSetInputOf(SrcEntries)

ReqInputsPermutation ==
    \E perm \in Args(PermInputs, Reads(input_permutation(tsx_obj.state))) :
        tsx_inputs_permutation_req(perm)

ReqInputViniOf(Entries) ==
    LET idx == tsx_obj.inp_idx + 1
        read == Reads(input_vins(tsx_obj.state)) /\ idx < Len(tsx_obj.source_permutation)
    IN  \E src_entr \in Args(Entries, read), vini \in Args(Vinis, read) :
        \E vini_hmac \in Args(HostSeals("txin"), read) :
            LET simple == /\ read
                          /\ tsx_obj.use_simple_rct
                          /\ ViniVerifies(tsx_obj, idx, src_entr, vini, vini_hmac)
            IN  \E pseudo_out \in Args(PseudoOuts, simple) :
                \E pseudo_out_hmac \in Args(HostSeals("txin-comm"), simple) :
                    tsx_input_vini(src_entr, vini, vini_hmac, pseudo_out, pseudo_out_hmac)

ReqInputVini == ReqInputViniOf(SrcEntries)

ReqSetOutput ==
    LET read == Reads(set_output(tsx_obj.state))
    IN  \E dst_entr \in Args(Dests, read), dst_entr_hmac \in Args(HostSeals("txdest"), read) :
        \E fresh_mask \in Args(Scalars, read) :
        \E fresh_key \in Args(Scalars, read /\ tsx_obj.need_additional_txkeys) :
            tsx_set_output1(dst_entr, dst_entr_hmac, fresh_mask, fresh_key)

ReqAllOutSet == tsx_all_out1_set

ReqMlsagDone == tsx_mlsag_done

ReqSignInputOf(Entries) ==
    LET idx == tsx_obj.inp_idx + 1
        read == Reads(set_signature(tsx_obj.state)) /\ idx < Len(tsx_obj.source_permutation)
        simple == read /\ tsx_obj.use_simple_rct
    IN  \E src_entr \in Args(Entries, read), vini \in Args(Vinis, read) :
        \E vini_hmac \in Args(HostSeals("txin"), read) :
            LET verified == simple /\ ViniVerifies(tsx_obj, idx, src_entr, vini, vini_hmac)
            IN  \E pseudo_out \in IF verified THEN PseudoOuts
                                  ELSE Args({None, Some(gen_c(0, 1))}, simple) :
                \E pseudo_out_hmac \in Args(HostSeals("txin-comm"), verified) :
                \E alpha \in IF verified THEN HostSeals("txin-alpha") \cup {NoSeal}
                             ELSE Args({NoSeal, Garbage}, simple) :
                    tsx_sign_input(src_entr, vini, vini_hmac, pseudo_out, pseudo_out_hmac, alpha)

ReqSignInput == ReqSignInputOf(SrcEntries)

ReqFinal == tsx_sign_final

ReqUnknown == sign_unknown

Next ==
    \/ ReqInit
    \/ ReqSetInput
    \/ ReqInputsPermutation
    \/ ReqInputVini
    \/ ReqSetOutput
    \/ ReqAllOutSet
    \/ ReqMlsagDone
    \/ ReqSignInput
    \/ ReqFinal
    \/ ReqUnknown

Spec == Init /\ [][Next]_vars

(* One session of either signer: the signer of Spec up to its second Init, *)
(* and the signer whose notifications return.                              *)
NextQuietUI ==
    \/ ReqInitOnce
    \/ ReqSetInput
    \/ ReqInputsPermutation
    \/ ReqInputVini
    \/ ReqSetOutput
    \/ ReqAllOutSet
    \/ ReqMlsagDone
    \/ ReqSignInput
    \/ ReqFinal
    \/ ReqUnknown

SpecQuietUI == InitQuietUI /\ [][NextQuietUI]_vars

(* The same session, of a host that may expect a prefix hash *)
NextPrefixHash ==
    \/ ReqInitExpecting
    \/ ReqSetInput
    \/ ReqInputsPermutation
    \/ ReqInputVini
    \/ ReqSetOutput
    \/ ReqAllOutSet
    \/ ReqMlsagDone
    \/ ReqSignInput
    \/ ReqFinal
    \/ ReqUnknown

SpecPrefixHash == InitQuietUI /\ [][NextPrefixHash]_vars

---------------------------------------------------------------------------
(* The key schedule as a function of what goes into it: two transaction    *)
(* objects are initialised, each with a TsxData, a tx secret, a counter    *)
(* and a random scalar, and their keys are put side by side.               *)

KeyInputs ==
    [tsx_data : {d \in TsxDatas : /\ d.outputs = <<[amount |-> 1, addr |-> "A", is_subaddress |-> FALSE]>>
                                   /\ d.exp_tx_prefix_hash = None},
     r : TxSecrets, ctr : 1..MaxTsx, rnd : 0..MaxRandom]

InitOf(in) == init_transaction(NewBuilder, in.tsx_data, in.ctr, in.r, in.rnd, "confirm").obj

InitFirst ==
    /\ lab = NoLab
    /\ \E a \in KeyInputs : lab' = [t |-> "first", a |-> a, obj_a |-> InitOf(a)]
    /\ UNCHANGED <<tsx_ctr, err_ctr, purge, tsx_obj, creds, iface, ui_errors, resp, host,
                   accepted, req, holder>>

InitSecond ==
    /\ lab.t = "first"
    /\ \E b \in KeyInputs :
           lab' = [t |-> "both", a |-> lab.a, obj_a |-> lab.obj_a, b |-> b, obj_b |-> InitOf(b)]
    /\ UNCHANGED <<tsx_ctr, err_ctr, purge, tsx_obj, creds, iface, ui_errors, resp, host,
                   accepted, req, holder>>

NextKeySchedule ==
    \/ InitFirst
    \/ InitSecond

SpecKeySchedule == Init /\ [][NextKeySchedule]_vars

---------------------------------------------------------------------------
(* The serializer (xmr/serialize): an Archive reads a value of a type from *)
(* a byte string, or writes one.  A read gives [ok, val, rest]: whether it *)
(* succeeded, the value, and the bytes it left unread.                     *)

ByteVals == {0, 1, 2, 128, 255}

ByteStrings == UNION {[1..n -> ByteVals] : n \in 0..MaxBytes}

Fail == [ok |-> FALSE, val |-> <<>>, rest |-> <<>>]

Got(v, rest) == [ok |-> TRUE, val |-> v, rest |-> rest]

(* unsigned varint: little-endian base-128, 7 bits per byte, the high bit  *)
(* says that another byte follows                                          *)
RECURSIVE load_uvarint_from(_, _, _)
load_uvarint_from(bs, result, unit) ==
    IF bs = <<>> THEN Fail
    ELSE LET byte == Head(bs)
             sum == result + (byte % 128) * unit
         IN  IF byte >= 128 THEN load_uvarint_from(Tail(bs), sum, unit * 128)
             ELSE Got(sum, Tail(bs))

(* a reader that takes only the shortest encoding of a number: it refuses  *)
(* a varint of several bytes whose last byte is zero                       *)
load_uvarint_minimal(bs) ==
    LET got == load_uvarint_from(bs, 0, 1)
        used == Len(bs) - Len(got.rest)
    IN  IF got.ok /\ used > 1 /\ bs[used] = 0 THEN Fail ELSE got

load_uvarint(bs) == load_uvarint_from(bs, 0, 1)

RECURSIVE dump_uvarint(_)
dump_uvarint(n) ==
    IF n \div 128 = 0 THEN <<n>>
    ELSE <<(n % 128) + 128>> \o dump_uvarint(n \div 128)

(* fixed-width unsigned integer, little-endian *)
RECURSIVE load_uint(_, _)
load_uint(bs, width) ==
    IF width = 0 THEN Got(0, bs)
    ELSE IF bs = <<>> THEN Fail
    ELSE LET high == load_uint(Tail(bs), width - 1)
         IN  IF high.ok THEN Got(Head(bs) + 256 * high.val, high.rest) ELSE Fail

RECURSIVE dump_uint(_, _)
dump_uint(n, width) ==
    IF width = 0 THEN <<>> ELSE <<n % 256>> \o dump_uint(n \div 256, width - 1)

load_blob(bs, elem_type) ==
    LET ivalue == IF elem_type.fix_size THEN Got(elem_type.size, bs) ELSE load_uvarint(bs)
    IN  IF ~ivalue.ok \/ Len(ivalue.rest) < ivalue.val THEN Fail
        ELSE Got(SubSeq(ivalue.rest, 1, ivalue.val),
                 SubSeq(ivalue.rest, ivalue.val + 1, Len(ivalue.rest)))

dump_blob(elem, elem_type) ==
    (IF elem_type.fix_size THEN <<>> ELSE dump_uvarint(Len(elem))) \o elem

RECURSIVE load_field(_, _), load_elems(_, _, _), load_fields(_, _)

load_container(bs, container_type) ==
    LET c_len == IF container_type.fix_size THEN Got(container_type.size, bs)
                 ELSE load_uvarint(bs)
    IN  IF c_len.ok THEN load_elems(c_len.rest, container_type.elem, c_len.val) ELSE Fail

load_elems(bs, elem_type, c_len) ==
    IF c_len = 0 THEN Got(<<>>, bs)
    ELSE LET fvalue == load_field(bs, elem_type)
             others == load_elems(fvalue.rest, elem_type, c_len - 1)
         IN  IF fvalue.ok /\ others.ok THEN Got(<<fvalue.val>> \o others.val, others.rest)
             ELSE Fail

load_message(bs, msg_type) == load_fields(bs, msg_type.fields)

load_fields(bs, fields) ==
    IF fields = <<>> THEN Got(<<>>, bs)
    ELSE LET fvalue == load_field(bs, Head(fields))
             others == load_fields(fvalue.rest, Tail(fields))
         IN  IF fvalue.ok /\ others.ok THEN Got(<<fvalue.val>> \o others.val, others.rest)
             ELSE Fail

load_variant(bs, elem_type) ==
    LET tag == load_uint(bs, 1)
        found == {i \in DOMAIN elem_type.options : elem_type.options[i].code = tag.val}
    IN  IF ~tag.ok \/ found = {} THEN Fail
        ELSE LET field == CHOOSE i \in found : \A j \in found : i <= j
                 fvalue == load_field(tag.rest, elem_type.options[field].type)
             IN  IF fvalue.ok THEN Got([variant_elem |-> field, val |-> fvalue.val], fvalue.rest)
                 ELSE Fail

load_field(bs, elem_type) ==
    CASE elem_type.k = "uvarint" -> load_uvarint(bs)
      [] elem_type.k = "uint" -> load_uint(bs, elem_type.width)
      [] elem_type.k = "blob" -> load_blob(bs, elem_type)
      [] elem_type.k = "variant" -> load_variant(bs, elem_type)
      [] elem_type.k = "container" -> load_container(bs, elem_type)
      [] elem_type.k = "message" -> load_message(bs, elem_type)

RECURSIVE dump_field(_, _), dump_elems(_, _), dump_fields(_, _)

dump_container_size(container, container_type) ==
    IF container_type.fix_size THEN <<>> ELSE dump_uvarint(Len(container))

dump_container(container, container_type) ==
    dump_container_size(container, container_type) \o dump_elems(container, container_type.elem)

dump_elems(container, elem_type) ==
    IF container = <<>> THEN <<>>
    ELSE dump_field(Head(container), elem_type) \o dump_elems(Tail(container), elem_type)

dump_message(msg, msg_type) == dump_fields(msg, msg_type.fields)

dump_fields(msg, fields) ==
    IF fields = <<>> THEN <<>>
    ELSE dump_field(Head(msg), Head(fields)) \o dump_fields(Tail(msg), Tail(fields))

dump_variant(elem, elem_type) ==
    dump_uint(elem_type.options[elem.variant_elem].code, 1)
        \o dump_field(elem.val, elem_type.options[elem.variant_elem].type)

dump_field(elem, elem_type) ==
    CASE elem_type.k = "uvarint" -> dump_uvarint(elem)
      [] elem_type.k = "uint" -> dump_uint(elem, elem_type.width)
      [] elem_type.k = "blob" -> dump_blob(elem, elem_type)
      [] elem_type.k = "variant" -> dump_variant(elem, elem_type)
      [] elem_type.k = "container" -> dump_container(elem, elem_type)
      [] elem_type.k = "message" -> dump_message(elem, elem_type)

(* The types (xmr/serialize/xmrtypes.py) *)

UVarintType == [k |-> "uvarint"]

BoolType == [k |-> "uint", width |-> 1]

ECKey == [k |-> "blob", fix_size |-> TRUE, size |-> KeySize]

ContainerType(elem_type) == [k |-> "container", fix_size |-> FALSE, size |-> 0, elem |-> elem_type]

MessageType(fields) == [k |-> "message", fields |-> fields]

VariantType(options) == [k |-> "variant", options |-> options]

VariantOf(code, type) == [code |-> code, type |-> type]

TxoutToScriptT == MessageType(<<ContainerType(ECKey), ContainerType([k |-> "uint", width |-> 1])>>)

TxoutToScriptHashT == MessageType(<<ECKey>>)

TxoutToKeyT == MessageType(<<ECKey>>)

TxoutTargetV ==
    VariantType(<<VariantOf(0, TxoutToScriptT), VariantOf(1, TxoutToScriptHashT),
                  VariantOf(2, TxoutToKeyT)>>)

TxinGenT == MessageType(<<UVarintType>>)

TxinToKeyT == MessageType(<<UVarintType, ContainerType(UVarintType), ECKey>>)

TxinToScriptT == MessageType(<<>>)

TxinToScriptHashT == MessageType(<<>>)

TxInV ==
    VariantType(<<VariantOf(255, TxinGenT), VariantOf(0, TxinToScriptT),
                  VariantOf(1, TxinToScriptHashT), VariantOf(2, TxinToKeyT)>>)

TxOutT == MessageType(<<UVarintType, TxoutTargetV>>)

CtKey == MessageType(<<ECKey, ECKey>>)

EcdhTuple == MessageType(<<ECKey, ECKey>>)

AccountPublicAddress == MessageType(<<ECKey, ECKey>>)

TxDestinationEntry == MessageType(<<UVarintType, AccountPublicAddress, BoolType>>)

TypeNames == {"TxInV", "TxOut", "TxDestinationEntry", "CtKey", "EcdhTuple"}

TypeOf(name) ==
    CASE name = "TxInV" -> TxInV
      [] name = "TxOut" -> TxOutT
      [] name = "TxDestinationEntry" -> TxDestinationEntry
      [] name = "CtKey" -> CtKey
      [] name = "EcdhTuple" -> EcdhTuple

(* A byte string is read as a value of one of the types, and the value     *)
(* that was read is written again.                                         *)

Deserialize ==
    /\ lab = NoLab
    /\ \E name \in TypeNames, b \in ByteStrings :
           LET got == load_field(b, TypeOf(name))
           IN  lab' = [t |-> "loaded", type |-> name, b |-> b, ok |-> got.ok,
                       val |-> got.val, rest |-> got.rest]
    /\ UNCHANGED <<tsx_ctr, err_ctr, purge, tsx_obj, creds, iface, ui_errors, resp, host,
                   accepted, req, holder>>

Serialize ==
    /\ lab.t = "loaded"
    /\ lab.ok
    /\ lab' = [t |-> "dumped", type |-> lab.type, b |-> lab.b, rest |-> lab.rest,
               val |-> lab.val, out |-> dump_field(lab.val, TypeOf(lab.type)),
               again |-> dump_field(lab.val, TypeOf(lab.type))]
    /\ UNCHANGED <<tsx_ctr, err_ctr, purge, tsx_obj, creds, iface, ui_errors, resp, host,
                   accepted, req, holder>>

NextSerializer ==
    \/ Deserialize
    \/ Serialize

SpecSerializer == Init /\ [][NextSerializer]_vars

---------------------------------------------------------------------------
(* Properties *)

Rep(k, x) == [i \in 1..k |-> x]
IsPrefix(s, t) == Len(s) <= Len(t) /\ \A i \in 1..Len(s) : s[i] = t[i]
Stages == [i \in 1..Len(accepted) |-> accepted[i].stage]
OfStage(stage) == SelectSeq(accepted, LAMBDA e : e.stage = stage)
Declared == accepted[1].tsx_data[1]
StageReqs == {"set_input", "input_permutation", "input_vini", "set_output", "all_out_set",
              "mlsag_done", "sign_input", "final_msg"}

(* The order of the stages of a transaction of n inputs and m outputs *)
StageOrder(n, m) ==
    <<"Init">> \o Rep(n, "SetInput") \o <<"InputsPermutation">> \o Rep(n, "InputVinI")
        \o Rep(m, "SetOutput") \o <<"AllOutputsSet", "MlsagDone">> \o Rep(n, "SignInput")
        \o <<"Final">>

(* C1: the requests a session has accepted are, in their order, the        *)
(* beginning of Init, SetInput x num_inputs, InputsPermutation, InputVinI  *)
(* x num_inputs, SetOutput x num_dests, AllOutputsSet, MlsagDone,          *)
(* SignInput x num_inputs, Final: a request of another stage, or of an     *)
(* earlier one, is never accepted.                                         *)
C1_StageOrder ==
    accepted # <<>> =>
        IsPrefix(Stages, StageOrder(Declared.num_inputs, Len(Declared.outputs)))

C1_Witness ==
    /\ accepted # <<>>
    /\ Declared.num_inputs = MaxInputs
    /\ Len(Declared.outputs) = MaxOutputs
    /\ Stages = StageOrder(MaxInputs, MaxOutputs)

(* C2: a request answered with RespError has dropped the transaction      *)
(* object, set purge, added exactly one to err_ctr and notified the UI     *)
(* once.                                                                   *)
C2_ErrorPurges ==
    [][resp'.t = "RespError" =>
          /\ tsx_obj' = NoObj
          /\ purge'
          /\ err_ctr' = err_ctr + 1
          /\ ui_errors' = ui_errors + 1]_vars

C2_Witness ==
    /\ req = "set_input"
    /\ resp.t = "RespError"
    /\ tsx_ctr = 1
    /\ err_ctr = 1
    /\ tsx_obj = NoObj

(* C3: no request ends with an exception leaving sign() while the          *)
(* transaction object is alive.                                            *)
C3_NoEscape == ~(resp.t = "Raised" /\ tsx_obj.alive)

(* C4: once an error has purged the session, a stage request is answered   *)
(* with RespError, and no request other than Init gives the host a sealed  *)
(* value, an accepted stage or a transaction object.                       *)
C4_NoProgressAfterError ==
    [][(purge /\ accepted = <<>> /\ req' # "init") =>
          /\ req' \in StageReqs => resp'.t = "RespError"
          /\ tsx_obj' = NoObj
          /\ host' = host
          /\ accepted' = <<>>]_vars

C4_Witness ==
    /\ purge
    /\ err_ctr = 2
    /\ req \in StageReqs \ {"set_input"}
    /\ resp.t = "RespError"
    /\ tsx_obj = NoObj

RECURSIVE SumOf(_, _)
SumOf(amount(_), entries) ==
    IF entries = <<>> THEN 0 ELSE amount(Head(entries)) + SumOf(amount, Tail(entries))

InputsMoney == SumOf(LAMBDA e : e.src_entr[1].amount, OfStage("SetInput"))
OutputsMoney == SumOf(LAMBDA e : e.dst_entr[1].amount, OfStage("SetOutput"))

(* C5: when AllOutputsSet has been accepted, the amounts of the accepted   *)
(* source entries add up to the amounts of the accepted destination        *)
(* entries plus the declared fee, and the outputs do not exceed the        *)
(* inputs.                                                                 *)
C5_FeeBalance ==
    OfStage("AllOutputsSet") # <<>> =>
        /\ InputsMoney = OutputsMoney + Declared.fee
        /\ OutputsMoney <= InputsMoney

C5_Witness ==
    /\ OfStage("AllOutputsSet") # <<>>
    /\ Declared.fee = MaxFee
    /\ Len(OfStage("SetOutput")) = MaxOutputs
    /\ Len(OfStage("SetInput")) = MaxInputs

RECURSIVE SumMasks(_)
SumMasks(sks) == IF sks = <<>> THEN 0 ELSE sc_add(Head(sks).mask, SumMasks(Tail(sks)))

AllOutputsIn ==
    /\ tsx_obj.alive
    /\ tsx_obj.use_simple_rct
    /\ tsx_obj.state = "OUTPUT"
    /\ tsx_obj.out_idx + 1 = num_dests(tsx_obj)

(* C6: in Simple RCT, once SetOutput has accepted every declared output,   *)
(* sumout equals sumpouts_alphas, and the mask of the last output is        *)
(* sumpouts_alphas minus the sum of the masks of the outputs before it.     *)
C6_MaskSum ==
    AllOutputsIn =>
        /\ tsx_obj.sumout = tsx_obj.sumpouts_alphas
        /\ tsx_obj.output_sk[tsx_obj.output_count].mask =
               sc_sub(tsx_obj.sumpouts_alphas,
                      SumMasks(SubSeq(tsx_obj.output_sk, 1, tsx_obj.output_count - 1)))

C6_Witness ==
    /\ AllOutputsIn
    /\ tsx_obj.output_count = MaxOutputs
    /\ tsx_obj.sumpouts_alphas # 0
    /\ tsx_obj.output_sk[1].mask # 0

(* The answer of SetInput to the input of load index source_permutation[i] *)
Loaded(i) == OfStage("SetInput")[tsx_obj.source_permutation[i] + 1]

PairIssued(stage) ==
    \A i \in 1..Len(OfStage(stage)) :
        /\ i <= Len(tsx_obj.source_permutation)
        /\ tsx_obj.source_permutation[i] + 1 \in 1..Len(OfStage("SetInput"))
        /\ OfStage(stage)[i].src_entr = Loaded(i).src_entr
        /\ OfStage(stage)[i].vini = Loaded(i).vini
        /\ OfStage(stage)[i].vini_hmac = Loaded(i).vini_hmac

(* C7: the source entry, vin and HMAC that InputVinI and SignInput have    *)
(* accepted at position i are those of the SetInput of load index          *)
(* source_permutation[i] of this session.                                  *)
C7_PairIssued ==
    tsx_obj.alive => PairIssued("InputVinI") /\ PairIssued("SignInput")

C7_Witness ==
    /\ tsx_obj.alive
    /\ tsx_obj.source_permutation = <<1, 0>>
    /\ Len(OfStage("SignInput")) = 2
    /\ OfStage("SetInput")[1].src_entr # OfStage("SetInput")[2].src_entr

PseudoOutIssued(stage) ==
    \A i \in 1..Len(OfStage(stage)) :
        OfStage(stage)[i].pseudo_out = Loaded(i).pseudo_out

Absorbed == SelectSeq(tsx_obj.full_message_hasher, LAMBDA tok : tok.f = "pseudo_out")

(* C8: in Simple RCT, the pseudo output that InputVinI and SignInput have  *)
(* accepted at position i is the one SetInput gave for load index          *)
(* source_permutation[i], and the pseudo outputs the PreMlsagHasher has    *)
(* absorbed are those, in that order.                                      *)
C8_PseudoOutIssued ==
    (tsx_obj.alive /\ tsx_obj.use_simple_rct) =>
        /\ PseudoOutIssued("InputVinI")
        /\ PseudoOutIssued("SignInput")
        /\ \A i \in 1..Len(Absorbed) :
               /\ i <= Len(tsx_obj.source_permutation)
               /\ Some(Absorbed[i].v) = Loaded(i).pseudo_out

C8_Witness ==
    /\ tsx_obj.alive
    /\ tsx_obj.use_simple_rct
    /\ Len(Absorbed) = 2
    /\ tsx_obj.source_permutation = <<1, 0>>
    /\ Absorbed[1] # Absorbed[2]

(* The messages of the failed checks of a vin HMAC, a pseudo output HMAC,  *)
(* a destination HMAC and an AEAD tag                                      *)
IntegrityErrors ==
    {"HMAC is not correct", "HMAC invalid for pseudo outs", "HMAC invalid",
     "Authentication failed"}

C10_DeclaredOutputs ==
    accepted # <<>> =>
        /\ Len(OfStage("SetOutput")) <= Len(Declared.outputs)
        /\ \A j \in 1..Len(OfStage("SetOutput")) :
               OfStage("SetOutput")[j].dst_entr = Some(Declared.outputs[j])

C10_Witness ==
    /\ accepted # <<>>
    /\ Len(OfStage("SetOutput")) = 2
    /\ Declared.outputs[1] # Declared.outputs[2]

(* The requests that carry one input, or one output, each *)
InputReqs == {"set_input", "input_vini", "sign_input"}
IndexInRange(o) ==
    /\ o.inp_idx \in -1..(num_inputs(o) - 1)
    /\ o.out_idx \in -1..(num_dests(o) - 1)

SessionPrefix ==
    [version |-> 2, unlock_time |-> 0,
     vin |-> [i \in 1..Len(OfStage("InputVinI")) |-> OfStage("InputVinI")[i].vini[1]],
     vout |-> [j \in 1..Len(OfStage("SetOutput")) |->
                  TxOut(tsx_obj.r, OfStage("SetOutput")[j].dst_entr[1], j - 1)],
     extra |-> Extra(tsx_obj.r)]

(* Every declared input and output is in, and the amounts balance *)
ReadyForAllOut ==
    /\ accepted # <<>>
    /\ tsx_obj.alive
    /\ Len(Declared.outputs) > 0
    /\ Stages = SubSeq(StageOrder(Declared.num_inputs, Len(Declared.outputs)), 1,
                       2 + 2 * Declared.num_inputs + Len(Declared.outputs))
    /\ InputsMoney = OutputsMoney + Declared.fee

PrefixHashMismatch ==
    /\ Declared.exp_tx_prefix_hash # None
    /\ Declared.exp_tx_prefix_hash # Some(get_digest(serialize_prefix(SessionPrefix)))

(* C12: a RespError carries a status only when it answers AllOutputsSet in *)
(* a session whose TsxData gave an expected prefix hash that differs from  *)
(* the hash of the prefix of the session, the status is 10 and the session *)
(* is over; and AllOutputsSet of such a session, with every input and      *)
(* output in and the amounts balanced, is answered with that RespError.    *)
C12_PrefixHashStatus ==
    [][/\ (resp'.t = "RespError" /\ resp'.status # None) =>
              /\ resp'.status = Some(10)
              /\ req' = "all_out_set"
              /\ ReadyForAllOut
              /\ PrefixHashMismatch
              /\ tsx_obj' = NoObj
              /\ purge'
       /\ (req' = "all_out_set" /\ ReadyForAllOut /\ PrefixHashMismatch) =>
              resp' = MoneroRespError(Some(10), exc2str(TxPrefixInvalid))]_vars

C12_Witness ==
    /\ req = "all_out_set"
    /\ resp.t = "RespError"
    /\ resp.status = Some(10)
    /\ tsx_obj = NoObj

HonestOrder == StageOrder(Declared.num_inputs, Len(Declared.outputs))
HonestSoFar ==
    /\ accepted # <<>>
    /\ tsx_obj.alive
    /\ IsPrefix(Stages, HonestOrder)
    /\ Len(Stages) < Len(HonestOrder)
    /\ Declared.num_inputs > 0
    /\ Len(Declared.outputs) > 0
NextStage == HonestOrder[Len(accepted) + 1]

(* The sealed value the device gave out under the subkey (tag, idx) of the *)
(* session, NoSeal when it sealed none                                     *)
EmittedFor(tag, idx) ==
    LET S == {h \in host : /\ h.key.tag = tag
                           /\ h.key.idx = idx
                           /\ h.key.parent.master = tsx_obj.key_master}
    IN  IF S = {} THEN {NoSeal} ELSE S

HonestInit ==
    \E tsx_data \in TsxDatas, r \in TxSecrets, rnd \in KeyRandoms :
        /\ tsx_data.num_inputs > 0
        /\ Len(tsx_data.outputs) > 0
        /\ sign_init(tsx_data, r, rnd, "confirm", TRUE)

HonestSetInput ==
    \E src_entr \in SrcEntries, alpha \in Scalars :
        src_entr.real_output < RingSize /\ tsx_set_input(src_entr, alpha)

HonestPermutation ==
    \E perm \in PermInputs :
        IsPermutation(perm, Declared.num_inputs) /\ tsx_inputs_permutation_req(perm)

HonestInputVini ==
    LET i == Len(OfStage("InputVinI")) + 1
        e == Loaded(i)
    IN  \E pseudo_out_hmac \in EmittedFor("txin-comm", tsx_obj.source_permutation[i]) :
            tsx_input_vini(e.src_entr[1], e.vini[1], e.vini_hmac[1], e.pseudo_out,
                           pseudo_out_hmac)

HonestSetOutput ==
    LET j == Len(OfStage("SetOutput")) + 1
    IN  \E dst_entr_hmac \in EmittedFor("txdest", j - 1), fresh_mask \in Scalars :
        \E fresh_key \in Args(Scalars, tsx_obj.need_additional_txkeys) :
            tsx_set_output1(Declared.outputs[j], dst_entr_hmac, fresh_mask, fresh_key)

HonestAllOutSet ==
    /\ InputsMoney = OutputsMoney + Declared.fee
    /\ ~PrefixHashMismatch
    /\ tsx_all_out1_set

HonestSignInput ==
    LET i == Len(OfStage("SignInput")) + 1
        e == Loaded(i)
    IN  \E pseudo_out_hmac \in EmittedFor("txin-comm", tsx_obj.source_permutation[i]) :
        \E alpha \in EmittedFor("txin-alpha", tsx_obj.source_permutation[i]) :
            tsx_sign_input(e.src_entr[1], e.vini[1], e.vini_hmac[1], e.pseudo_out,
                           pseudo_out_hmac, alpha)

HonestStage ==
    /\ HonestSoFar
    /\ CASE NextStage = "SetInput" -> HonestSetInput
     [] NextStage = "InputsPermutation" -> HonestPermutation
     [] NextStage = "InputVinI" -> HonestInputVini
     [] NextStage = "SetOutput" -> HonestSetOutput
     [] NextStage = "AllOutputsSet" -> HonestAllOutSet
     [] NextStage = "MlsagDone" -> tsx_mlsag_done
     [] NextStage = "SignInput" -> HonestSignInput
     [] NextStage = "Final" -> tsx_sign_final

HonestRequest ==
    \/ req' = "init" /\ HonestInit
    \/ req' # "init" /\ HonestStage

(* C14: a request of the honest host is never answered with an error: the  *)
(* HMACs and ciphertexts it returns verify and its session goes on, up to  *)
(* Final.                                                                  *)
C14_HonestCompletes ==
    [][HonestRequest => resp'.t \notin {"RespError", "Raised"}]_vars

(* Behind an interface whose progress notifications return, the honest    *)
(* host is never answered with an error.                                   *)
HonestCompletesQuiet ==
    [][(iface = "quiet" /\ HonestRequest) => resp'.t \notin {"RespError", "Raised"}]_vars

(* The vins behind the transaction prefix hash *)
VinsHashed == SelectSeq(tsx_obj.tx_prefix_hash[1].digest_of, LAMBDA tok : tok.f = "vin")

(* The positions at which a stage accepted the input of load index k: the  *)
(* HMAC of a vin is sealed under the subkey of its load index.             *)
PositionsOf(stage, k) ==
    {i \in 1..Len(OfStage(stage)) :
        OfStage(stage)[i].vini_hmac = OfStage("SetInput")[k].vini_hmac}

TableOf(tsx_data) ==
    {[major |-> tsx_data.account[1], minor |-> tsx_data.minor_indices[i]] :
        i \in 1..Len(tsx_data.minor_indices)}

(* The signing state right after Init, as a function of the TsxData of the *)
(* request, the counter, the tx secret and the randomness drawn for it     *)
AfterInit(tsx_data, ctr, r, rnd) ==
    [alive |-> TRUE, state |-> "INP_CNT",
     key_master |-> [data |-> tsx_data, r |-> r, ctr |-> ctr, rnd |-> rnd], r |-> r,
     use_bulletproof |-> FALSE, use_rct |-> TRUE,
     use_simple_rct |-> tsx_data.num_inputs > 1,
     input_count |-> tsx_data.num_inputs, output_count |-> Len(tsx_data.outputs),
     fee |-> tsx_data.fee, inp_idx |-> -1, out_idx |-> -1,
     summary_inputs_money |-> 0, summary_outs_money |-> 0,
     input_secrets |-> <<>>, output_pk |-> <<>>, output_sk |-> <<>>,
     sumout |-> 0, sumpouts_alphas |-> 0, subaddresses |-> Some(TableOf(tsx_data)),
     source_permutation |-> <<>>,
     tx_prefix_hasher |-> <<Tok("version", Num(2)), Tok("unlock_time", Num(0)),
                            Tok("vin_size", Num(tsx_data.num_inputs))>>,
     tx_prefix_hash |-> None,
     full_message_hasher |->
         <<Tok("init", [simple |-> tsx_data.num_inputs > 1]),
           Tok("type_fee", [type |-> IF tsx_data.num_inputs > 1 THEN "Simple" ELSE "Full",
                            fee |-> tsx_data.fee])>>,
     full_message |-> None,
     exp_tx_prefix_hash |-> tsx_data.exp_tx_prefix_hash,
     r_pub |-> scalarmult_base(r), output_change |-> None,
     need_additional_txkeys |-> FALSE, multi_sig |-> FALSE,
     additional_tx_private_keys |-> <<>>, additional_tx_public_keys |-> <<>>]

FinalFields == {"tx_enc_keys", "salt", "rand_mult"}

(* C17: an accepted SignInput leaves the state at signature-done exactly   *)
(* when it has signed the last of the num_inputs inputs; and an answer     *)
(* that holds tx_enc_keys, salt or rand_mult answers a Final sent at       *)
(* signature-done, after SignInput was accepted for every declared input.  *)
C17_FinalAfterAllSigned ==
    [][/\ (req' = "sign_input" /\ tsx_obj'.alive) =>
              tsx_obj'.state = IF tsx_obj'.inp_idx + 1 = num_inputs(tsx_obj')
                               THEN "SIGNATURE_DONE" ELSE "SIGNATURE"
       /\ (FinalFields \cap DOMAIN resp' # {}) =>
              /\ req' = "final_msg"
              /\ tsx_obj.alive
              /\ tsx_obj.state = "SIGNATURE_DONE"
              /\ Declared.num_inputs > 0
              /\ Len(OfStage("SignInput")) = Declared.num_inputs]_vars

C17_Witness ==
    /\ req = "final_msg"
    /\ resp.t = "FinalResp"
    /\ FinalFields \subseteq DOMAIN resp
    /\ Len(OfStage("SignInput")) = MaxInputs

(* The keys of a transaction object: the master key, the HMAC and the      *)
(* encryption key, and the subkeys of every tag at every index             *)
KeysOf(o) ==
    [key_master |-> o.key_master, key_hmac |-> key_hmac(o), key_enc |-> key_enc(o),
     sub |-> [idx \in 0..(MaxInputs + MaxOutputs) |->
                 <<hmac_key_txin(o, idx), hmac_key_txin_comm(o, idx), hmac_key_txdst(o, idx),
                   hmac_key_txout(o, idx), enc_key_txin_alpha(o, idx)>>]]

C20_RoundTrip ==
    (lab.t = "dumped" /\ lab.rest = <<>>) => (lab.out = lab.b /\ lab.again = lab.out)

(* the fixed-size part of C20: CtKey and EcdhTuple, which hold no varint *)
RoundTripFixed ==
    (lab.t = "dumped" /\ lab.rest = <<>> /\ lab.type \in {"CtKey", "EcdhTuple"}) =>
        lab.out = lab.b

(* the read leaves nothing behind exactly when the bytes written back are  *)
(* as many as were read or fewer: writing never lengthens                  *)
WritesNoLonger ==
    (lab.t = "dumped" /\ lab.rest = <<>>) => Len(lab.out) <= Len(lab.b)

(* The calls the PreMlsagHasher of the session has received, by name and   *)
(* in their order (the range proofs absorbed by rsig_val left out);        *)
(* rctsig_base_done is the call that closes the hasher in MlsagDone.       *)
MlsagCalls ==
    LET closed == tsx_obj.full_message # None
        toks == IF closed THEN tsx_obj.full_message[1].digest_of
                ELSE tsx_obj.full_message_hasher
        calls == SelectSeq([i \in 1..Len(toks) |-> toks[i].f], LAMBDA f : f # "rsig")
    IN  calls \o (IF closed THEN <<"rctsig_base_done">> ELSE <<>>)

PseudoOutCalls == IF tsx_obj.use_simple_rct THEN num_inputs(tsx_obj) ELSE 0

(* The order of section 4.3: set_message before the first set_ecdh *)
SpecifiedOrder ==
    <<"init", "type_fee">> \o Rep(PseudoOutCalls, "pseudo_out") \o <<"message">>
        \o Rep(num_dests(tsx_obj), "ecdh") \o Rep(num_dests(tsx_obj), "out_pk")
        \o <<"rctsig_base_done">>

(* The order of the stages: set_ecdh in SetOutput, set_message in          *)
(* AllOutputsSet                                                           *)
StagedOrder ==
    <<"init", "type_fee">> \o Rep(PseudoOutCalls, "pseudo_out")
        \o Rep(num_dests(tsx_obj), "ecdh") \o <<"message">>
        \o Rep(num_dests(tsx_obj), "out_pk") \o <<"rctsig_base_done">>

C23_OutputsAfterInputs ==
    [][(req' = "set_output" /\ tsx_obj.alive) =>
          /\ (tsx_obj'.alive /\ tsx_obj'.out_idx = 0) =>
                 /\ OfStage("InputsPermutation") # <<>>
                 /\ Len(OfStage("InputVinI")) = num_inputs(tsx_obj)
                 /\ tsx_obj.inp_idx + 1 = num_inputs(tsx_obj)
          /\ (\/ OfStage("InputsPermutation") = <<>>
              \/ Len(OfStage("InputVinI")) < num_inputs(tsx_obj)) =>
                 /\ resp'.t = "RespError"
                 /\ tsx_obj' = NoObj
                 /\ purge'
                 /\ host' = host
                 /\ iface = "quiet" =>
                        resp'.exc \in {exc2str(Illegal), exc2str("Invalid number of inputs")}]_vars

C23_Witness ==
    /\ req = "set_output"
    /\ resp.t = "RespError"
    /\ resp.exc = exc2str("Invalid number of inputs")
    /\ tsx_obj = NoObj
    /\ purge

(* C24: AllOutputsSet is answered with the prefix hash only when SetOutput *)
(* has been accepted for every declared output (out_idx + 1 = num_dests);  *)
(* sent after fewer, it is answered with RespError, the session is         *)
(* dropped and the answer holds no tx_prefix_hash.                         *)
C24_AllOutputsNeeded ==
    [][(req' = "all_out_set" /\ tsx_obj.alive) =>
          /\ ("tx_prefix_hash" \in DOMAIN resp' \/ tsx_obj'.alive) =>
                 /\ Len(OfStage("SetOutput")) = num_dests(tsx_obj)
                 /\ tsx_obj.out_idx + 1 = num_dests(tsx_obj)
          /\ Len(OfStage("SetOutput")) < num_dests(tsx_obj) =>
                 /\ resp'.t = "RespError"
                 /\ "tx_prefix_hash" \notin DOMAIN resp'
                 /\ tsx_obj' = NoObj
                 /\ purge']_vars

C24_Witness ==
    /\ req = "all_out_set"
    /\ resp.t = "RespError"
    /\ resp.exc = exc2str("Invalid out num")
    /\ tsx_obj = NoObj

(* The spend secret SetInput derived at load index k (from 0) *)
SecretOfLoad(k) == generate_key_image_helper(OfStage("SetInput")[k + 1].src_entr[1])

(* C25: an accepted InputsPermutation with permutation pi leaves           *)
(* source_permutation = pi and inp_idx = -1; from then on input_secrets[i] *)
(* is the spend secret SetInput derived at load index pi(i); and the       *)
(* secret an accepted SignInput at position i signs with is the secret of  *)
(* the source entry SetInput loaded at index pi(i).                        *)
C25_SecretsPermuted ==
    [][/\ \A perm \in PermInputs :
              (tsx_inputs_permutation_req(perm) /\ tsx_obj'.alive) =>
                  /\ tsx_obj'.source_permutation = perm
                  /\ tsx_obj'.inp_idx = -1
       /\ (tsx_obj'.alive /\ SelectSeq(accepted', LAMBDA e : e.stage = "InputsPermutation") # <<>>) =>
              /\ Len(tsx_obj'.input_secrets) = num_inputs(tsx_obj')
              /\ \A i \in 1..Len(tsx_obj'.input_secrets) :
                     tsx_obj'.input_secrets[i] =
                         generate_key_image_helper(
                             SelectSeq(accepted', LAMBDA e : e.stage = "SetInput")
                                 [tsx_obj'.source_permutation[i] + 1].src_entr[1])
       /\ (req' = "sign_input" /\ tsx_obj'.alive) =>
              resp'.signature.in_sk.dest =
                  SecretOfLoad(tsx_obj.source_permutation[tsx_obj'.inp_idx + 1])]_vars

C25_Witness ==
    /\ tsx_obj.alive
    /\ req = "sign_input"
    /\ tsx_obj.source_permutation = <<1, 0>>
    /\ tsx_obj.inp_idx = 1
    /\ SecretOfLoad(0) # SecretOfLoad(1)
    /\ tsx_obj.input_secrets = <<SecretOfLoad(1), SecretOfLoad(0)>>
    /\ resp.signature.in_sk.dest = SecretOfLoad(0)

(* What SetInput sealed for the input of load index k: alpha, the mask of  *)
(* the pseudo output, under the key K_txin-alpha(k)                        *)
AlphaOfLoad(k) == OfStage("SetInput")[k + 1].pseudo_out[1].mask
AlphaEncOfLoad(k) == encrypt_pack(enc_key_txin_alpha(tsx_obj, k), encodeint(AlphaOfLoad(k)))

(* C26: in Simple RCT an accepted SignInput at position i was sent the     *)
(* alpha_enc that SetInput emitted for load index pi(i) and no other       *)
(* (none, garbage, or the one of another index), and the alpha and the     *)
(* pseudo output that go into its MLSAG are the alpha SetInput sampled for *)
(* that input and the pseudo output made with it.                          *)
C26_AlphaOfInput ==
    [][(req' = "sign_input" /\ tsx_obj.alive /\ tsx_obj'.alive /\ tsx_obj.use_simple_rct) =>
          LET e == accepted'[Len(accepted')]
              k == tsx_obj.source_permutation[tsx_obj'.inp_idx + 1]
          IN  /\ e.pseudo_out # None
              /\ e.pseudo_out = OfStage("SetInput")[k + 1].pseudo_out
              /\ resp'.signature.alpha = Some(AlphaOfLoad(k))
              /\ resp'.signature.pseudo_out = Some(gen_c(AlphaOfLoad(k), e.src_entr[1].amount))
              /\ \A pseudo_out_hmac \in HostSeals("txin-comm") \cup {NoSeal} :
                 \A alpha \in HostSeals("txin-alpha") \cup {NoSeal} :
                     tsx_sign_input(e.src_entr[1], e.vini[1], e.vini_hmac[1], e.pseudo_out,
                                    pseudo_out_hmac, alpha) => alpha = AlphaEncOfLoad(k)]_vars

C26_Witness ==
    /\ tsx_obj.alive
    /\ req = "sign_input"
    /\ tsx_obj.use_simple_rct
    /\ tsx_obj.source_permutation = <<1, 0>>
    /\ tsx_obj.inp_idx = 1
    /\ AlphaOfLoad(0) # AlphaOfLoad(1)
    /\ resp.signature.alpha = Some(AlphaOfLoad(0))

(* C27: from Init on use_simple_rct is (num_inputs > 1), use_bulletproof   *)
(* is false and use_rct is true; the RCT type hashed at Init and the one   *)
(* AllOutputsSet answers is Simple when num_inputs > 1 and Full otherwise; *)
(* and in Full RCT a SignInput that would be the second is rejected.       *)
C27_RctType ==
    [][/\ (tsx_obj'.alive /\ accepted' # <<>>) =>
              /\ tsx_obj'.use_simple_rct = (accepted'[1].tsx_data[1].num_inputs > 1)
              /\ ~tsx_obj'.use_bulletproof
              /\ tsx_obj'.use_rct
              /\ tsx_obj'.full_message_hasher # <<>> =>
                     tsx_obj'.full_message_hasher[2].v.type =
                         IF num_inputs(tsx_obj') > 1 THEN "Simple" ELSE "Full"
              /\ resp'.t = "AllOutSetResp" =>
                     resp'.rv.rv_type = IF num_inputs(tsx_obj') > 1 THEN "Simple" ELSE "Full"
       /\ (/\ req' = "sign_input"
           /\ tsx_obj.alive
           /\ ~tsx_obj.use_simple_rct
           /\ OfStage("SignInput") # <<>>) =>
              resp'.t = "RespError" /\ tsx_obj' = NoObj]_vars

C27_Witness ==
    /\ req = "sign_input"
    /\ tsx_obj.alive
    /\ ~tsx_obj.use_simple_rct
    /\ tsx_obj.use_rct
    /\ num_inputs(tsx_obj) = 1
    /\ tsx_obj.state = "SIGNATURE_DONE"
    /\ Len(OfStage("SignInput")) = 1

---------------------------------------------------------------------------
(* Transaction keys of subaddress destinations.  An honest host behind a   *)
(* UI whose notifications return signs one transaction of one input; its   *)
(* destinations are standard addresses or subaddresses, one of them may be *)
(* the change, and it may provide the transaction keys itself.             *)

MaxGivenKeys == 3    \* additional private keys the host provides: 0..MaxGivenKeys

DestsTxKeys == [amount : {1}, addr : {"A", "B"}, is_subaddress : BOOLEAN]
GivenTxKeys ==
    {<<>>} \cup
    {<<encodeint(1)>> \o ks :
        ks \in UNION {[1..k -> {encodeint(x) : x \in Scalars}] : k \in 0..MaxGivenKeys}}
TsxDatasTxKeys ==
    [num_inputs : {1},
     outputs : UNION {[1..k -> DestsTxKeys] : k \in 1..MaxOutputs},
     fee : {0}, exp_tx_prefix_hash : {None},
     change_dts : {None} \cup {Some(d) : d \in DestsTxKeys},
     use_tx_keys : GivenTxKeys, account : {None}, minor_indices : {<<>>},
     is_multisig : {FALSE}]

InitTxKeys == InitCommon /\ iface = "quiet"

HonestInitTxKeys ==
    \E tsx_data \in TsxDatasTxKeys, r \in TxSecrets, rnd \in KeyRandoms :
        sign_init(tsx_data, r, rnd, "confirm", TRUE)

NextTxKeys ==
    \/ HonestInitTxKeys
    \/ HonestSoFar /\ NextStage = "SetInput" /\ HonestSetInput
    \/ HonestSoFar /\ NextStage = "InputsPermutation" /\ HonestPermutation
    \/ HonestSoFar /\ NextStage = "InputVinI" /\ HonestInputVini
    \/ HonestSoFar /\ NextStage = "SetOutput" /\ HonestSetOutput
    \/ HonestSoFar /\ NextStage = "AllOutputsSet" /\ HonestAllOutSet
    \/ HonestSoFar /\ NextStage = "MlsagDone" /\ tsx_mlsag_done
    \/ HonestSoFar /\ NextStage = "SignInput" /\ HonestSignInput
    \/ HonestSoFar /\ NextStage = "Final" /\ tsx_sign_final

SpecTxKeys == InitTxKeys /\ [][NextTxKeys]_vars

(* The destinations of the declared outputs that are not the change, by    *)
(* their position, and those of them that are subaddresses                 *)
NonChange ==
    {j \in 1..Len(Declared.outputs) :
        Declared.change_dts = None \/ Declared.outputs[j].addr # Declared.change_dts[1].addr}
SubDests == {j \in NonChange : Declared.outputs[j].is_subaddress}
StdDests == NonChange \ SubDests
SingleSubaddress == Cardinality(StdDests) = 0 /\ Cardinality(SubDests) = 1
SeveralKeysNeeded ==
    Cardinality(SubDests) > 0 /\ (Cardinality(StdDests) > 0 \/ Cardinality(SubDests) > 1)

(* C28: in a session that Init has opened, the transaction public key is   *)
(* r times the spend key of the one subaddress destination exactly when    *)
(* the destinations other than the change are that one subaddress and no   *)
(* standard address, and r*G otherwise; additional keys are needed exactly *)
(* when there is a subaddress among them and also a standard address or a  *)
(* second subaddress; the two cases never hold together.                   *)
C28_TxPubKey ==
    (accepted # <<>> /\ tsx_obj.alive) =>
        /\ SingleSubaddress =>
               \E j \in SubDests :
                   tsx_obj.r_pub = ge_scalarmult(tsx_obj.r, Declared.outputs[j].addr)
        /\ ~SingleSubaddress => tsx_obj.r_pub = scalarmult_base(tsx_obj.r)
        /\ tsx_obj.need_additional_txkeys = SeveralKeysNeeded
        /\ ~(SingleSubaddress /\ tsx_obj.need_additional_txkeys)

C28_Witness ==
    /\ Stages = <<"Init">>
    /\ tsx_obj.alive
    /\ Len(Declared.outputs) = 2
    /\ Declared.change_dts # None
    /\ SingleSubaddress
    /\ tsx_obj.r_pub.base = "B"
    /\ ~tsx_obj.need_additional_txkeys
(* The additional public key of a destination made with a private key:     *)
(* priv times the spend key of a subaddress, priv*G of a standard address  *)
AdditionalPub(priv, dst_entr) ==
    IF dst_entr.is_subaddress THEN ge_scalarmult(priv, dst_entr.addr) ELSE scalarmult_base(priv)

(* C29: when additional keys are needed every accepted SetOutput appends   *)
(* one additional public key, so that their number is the number of        *)
(* outputs set, and an accepted AllOutputsSet answers with an extra that   *)
(* holds the transaction public key and then, under tag 4, these keys, as  *)
(* many as there are destinations; when they are not needed no key is      *)
(* appended and extra holds the transaction public key alone.              *)
C29_AdditionalPubKeys ==
    [][/\ (req' = "set_output" /\ tsx_obj.alive /\ tsx_obj'.alive) =>
              IF tsx_obj.need_additional_txkeys
              THEN /\ Len(tsx_obj'.additional_tx_public_keys) =
                          Len(tsx_obj.additional_tx_public_keys) + 1
                   /\ SubSeq(tsx_obj'.additional_tx_public_keys, 1,
                             Len(tsx_obj.additional_tx_public_keys)) =
                          tsx_obj.additional_tx_public_keys
                   /\ Len(tsx_obj'.additional_tx_public_keys) = tsx_obj'.out_idx + 1
              ELSE tsx_obj'.additional_tx_public_keys = <<>>
       /\ (req' = "all_out_set" /\ tsx_obj.alive /\ tsx_obj'.alive) =>
              /\ resp'.extra[1] = [tag |-> 1, keys |-> <<tsx_obj.r_pub>>]
              /\ IF tsx_obj.need_additional_txkeys
                 THEN /\ Len(resp'.extra) = 2
                      /\ resp'.extra[2] =
                             [tag |-> 4, keys |-> tsx_obj.additional_tx_public_keys]
                      /\ Len(resp'.extra[2].keys) = num_dests(tsx_obj)
                 ELSE Len(resp'.extra) = 1]_vars

C29_Witness ==
    /\ req = "all_out_set"
    /\ resp.t = "AllOutSetResp"
    /\ tsx_obj.alive
    /\ tsx_obj.need_additional_txkeys
    /\ Len(resp.extra) = 2
    /\ resp.extra[2].tag = 4
    /\ Len(resp.extra[2].keys) = MaxOutputs

(* The additional private keys the host gave in use_tx_keys *)
GivenKeys == Len(Declared.use_tx_keys) - 1

EveryOutputSet ==
    /\ accepted # <<>>
    /\ tsx_obj.alive
    /\ tsx_obj.need_additional_txkeys
    /\ tsx_obj.state = "OUTPUT"
    /\ tsx_obj.out_idx + 1 = num_dests(tsx_obj)

PrivateKeysMatch ==
    /\ Len(tsx_obj.additional_tx_private_keys) = num_dests(tsx_obj)
    /\ \A j \in 1..Len(tsx_obj.additional_tx_public_keys) :
           /\ j <= Len(tsx_obj.additional_tx_private_keys)
           /\ tsx_obj.additional_tx_public_keys[j] =
                  AdditionalPub(tsx_obj.additional_tx_private_keys[j], Declared.outputs[j])

PrivateKeysNoneOrAll ==
    (EveryOutputSet /\ GivenKeys \in {-1, 0, num_dests(tsx_obj)}) => PrivateKeysMatch

(* What Final seals is what the list holds *)
SealedKeysAreStored ==
    (req = "final_msg" /\ resp.t = "FinalResp" /\ tsx_obj.alive) =>
        resp.tx_enc_keys.body.pt =
            [r |-> tsx_obj.r, additional |-> tsx_obj.additional_tx_private_keys]

(* With fewer keys than destinations the key of one output is used again   *)
(* for the next; with more the list grows beyond the destinations.         *)
KeyUsedTwice ==
    /\ EveryOutputSet
    /\ GivenKeys = 1
    /\ num_dests(tsx_obj) = 2
    /\ tsx_obj.additional_tx_private_keys[1] # tsx_obj.additional_tx_private_keys[2]
    /\ tsx_obj.additional_tx_public_keys[1].r_pub_of = tsx_obj.additional_tx_public_keys[2].r_pub_of

ListTooLong ==
    /\ EveryOutputSet
    /\ GivenKeys > num_dests(tsx_obj)
    /\ Len(tsx_obj.additional_tx_private_keys) = GivenKeys + num_dests(tsx_obj)
---------------------------------------------------------------------------
(* The holder of the two persistent objects.  The key image sync session   *)
(* (layout_key_image_sync with KiSync) lives in the slot ctx_ki: an init   *)
(* the user confirms opens it, each record handed in is counted, the final *)
(* message or a rejection empties the slot.                                *)

MaxKiRecords == 2    \* records one key image sync session handles

KiMsgs == {"init", "step", "final_msg"}

dispatch_MoneroKeyImageSync(msg, usr) ==
    /\ msg = "step" => (holder.ctx_ki # None /\ holder.ctx_ki[1].records < MaxKiRecords)
    /\ msg = "final_msg" => holder.ctx_ki # None
    /\ holder' = [holder EXCEPT !.ctx_ki =
                     CASE msg = "init" ->
                              IF usr = "confirm" THEN Some([records |-> 0]) ELSE None
                       [] msg = "step" -> Some([records |-> @[1].records + 1])
                       [] msg = "final_msg" -> None]
    /\ UNCHANGED <<tsx_ctr, err_ctr, purge, tsx_obj, creds, iface, ui_errors, resp, host,
                   accepted, req, lab>>

InitHolder == InitCommon /\ iface = "quiet"

NextHolder ==
    \/ HonestInit
    \/ HonestStage
    \/ \E msg \in KiMsgs, usr \in {"confirm", "cancel"} : dispatch_MoneroKeyImageSync(msg, usr)

SpecHolder == InitHolder /\ [][NextHolder]_vars

(* The state of the signer and of its transaction *)
signer_vars ==
    <<tsx_ctr, err_ctr, purge, tsx_obj, creds, iface, ui_errors, resp, host, accepted, req>>

ChangeAmongOutputs(tsx_data) ==
    \E j \in 1..Len(tsx_data.outputs) :
        tsx_data.outputs[j].addr = tsx_data.change_dts[1].addr

(* C31: an Init whose TsxData names a change destination with the address  *)
(* of none of its outputs is answered with the error 'Change address not   *)
(* found in outputs', the transaction object is dropped and the signer is  *)
(* marked for purge; an Init without a change destination, or with one     *)
(* whose address is among the outputs, is accepted, and the state it       *)
(* leaves holds the change destination as given.                           *)
C31_ChangeAddress ==
    [][req' = "init" =>
          \A tsx_data \in TsxDatasTxKeys, r \in TxSecrets, rnd \in KeyRandoms :
              sign_init(tsx_data, r, rnd, "confirm", TRUE) =>
                  IF tsx_data.change_dts # None /\ ~ChangeAmongOutputs(tsx_data)
                  THEN /\ resp'.t = "RespError"
                       /\ resp'.exc = exc2str("Change address not found in outputs")
                       /\ tsx_obj' = NoObj
                       /\ purge'
                       /\ accepted' = <<>>
                  ELSE /\ resp'.t = "InitResp"
                       /\ tsx_obj'.alive
                       /\ tsx_obj'.state = "INP_CNT"
                       /\ tsx_obj'.output_change = tsx_data.change_dts
                       /\ ~purge']_vars

C31_Witness ==
    /\ req = "init"
    /\ resp.t = "RespError"
    /\ resp.exc = exc2str("Change address not found in outputs")
    /\ tsx_obj = NoObj
    /\ purge
    /\ tsx_ctr = 1

(* An Init whose change destination is among two outputs is accepted *)
ChangeAccepted ==
    /\ Stages = <<"Init">>
    /\ tsx_obj.alive
    /\ tsx_obj.output_change # None
    /\ Len(Declared.outputs) = 2
    /\ ChangeAmongOutputs(Declared)
NoSubaddresses == "'TTransactionBuilder' object has no attribute 'subaddresses'"

(* C32: the subaddress table is the one an accepted Init computes from the *)
(* account and the minor indices of its TsxData; no later request changes  *)
(* it but the accepted SetInput that makes inp_idx + 1 = num_inputs, which *)
(* drops it and moves the state to INPUT_DONE; the table is there exactly  *)
(* while the state is before INPUT_DONE; and no request fails because it   *)
(* reaches for the dropped table.                                          *)
C32_SubaddressTable ==
    [][/\ (req' = "init" /\ tsx_obj'.alive /\ accepted' # <<>>) =>
              tsx_obj'.subaddresses = Some(TableOf(accepted'[1].tsx_data[1]))
       /\ (req' # "init" /\ tsx_obj.alive /\ tsx_obj'.alive) =>
              IF req' = "set_input" /\ tsx_obj'.inp_idx + 1 = num_inputs(tsx_obj')
              THEN /\ tsx_obj.subaddresses # None
                   /\ tsx_obj'.subaddresses = None
                   /\ tsx_obj.state # "INPUT_DONE"
                   /\ tsx_obj'.state = "INPUT_DONE"
              ELSE tsx_obj'.subaddresses = tsx_obj.subaddresses
       /\ tsx_obj'.alive =>
              (tsx_obj'.subaddresses # None <=>
                   tsx_obj'.state \in {"START", "INIT", "INP_CNT", "INPUT"})
       /\ "exc" \in DOMAIN resp' => resp'.exc # exc2str(NoSubaddresses)]_vars

C32_Witness ==
    /\ req = "set_input"
    /\ tsx_obj.alive
    /\ tsx_obj.state = "INPUT_DONE"
    /\ tsx_obj.subaddresses = None
    /\ num_inputs(tsx_obj) = MaxInputs
    /\ TableOf(Declared) # {}
(* C33: an accepted MlsagDone found as many stored out_pk as there are     *)
(* destinations, the out_pk at position j being the one of output index j; *)
(* full_message is the digest of what the hasher had absorbed followed by  *)
(* these out_pk in their order, it is the digest of the answer, the hasher *)
(* is gone, and inp_idx and out_idx are -1; a MlsagDone that finds another *)
(* number of out_pk is refused; and the first SignInput accepted after it  *)
(* is at input 0.                                                          *)
C33_MlsagDone ==
    [][/\ (req' = "mlsag_done" /\ tsx_obj.alive) =>
              IF tsx_obj'.alive
              THEN /\ Len(tsx_obj.output_pk) = num_dests(tsx_obj)
                   /\ \A j \in 1..Len(tsx_obj.output_pk) :
                          tsx_obj.output_pk[j].dest.idx = j - 1
                   /\ tsx_obj'.full_message =
                          Some(get_digest(tsx_obj.full_message_hasher \o
                                   [j \in 1..num_dests(tsx_obj) |->
                                       Tok("out_pk", tsx_obj.output_pk[j])]))
                   /\ resp'.t = "MlsagDoneResp"
                   /\ resp'.full_message_hash = tsx_obj'.full_message[1]
                   /\ tsx_obj'.full_message_hasher = <<>>
                   /\ tsx_obj'.inp_idx = -1
                   /\ tsx_obj'.out_idx = -1
                   /\ tsx_obj'.output_pk = tsx_obj.output_pk
              ELSE resp'.t = "RespError"
       /\ (req' = "mlsag_done" /\ tsx_obj.alive
              /\ Len(tsx_obj.output_pk) # num_dests(tsx_obj)) => tsx_obj' = NoObj
       /\ (req' = "sign_input" /\ tsx_obj.alive /\ tsx_obj'.alive
              /\ OfStage("SignInput") = <<>>) => tsx_obj'.inp_idx = 0]_vars

C33_Witness ==
    /\ req = "mlsag_done"
    /\ resp.t = "MlsagDoneResp"
    /\ tsx_obj.alive
    /\ num_dests(tsx_obj) = MaxOutputs
    /\ num_inputs(tsx_obj) = MaxInputs
    /\ Len(tsx_obj.full_message[1].digest_of) > MaxOutputs
    /\ tsx_obj.full_message[1].digest_of[Len(tsx_obj.full_message[1].digest_of)] =
           Tok("out_pk", tsx_obj.output_pk[MaxOutputs])
    /\ tsx_obj.inp_idx = -1
    /\ tsx_obj.out_idx = -1

(* A MlsagDone sent before every output is in is refused by the stage      *)
(* automaton, so the test of the number of out_pk never is the one to fail *)
OutPkCountNeverFails ==
    "exc" \in DOMAIN resp => resp.exc # exc2str("Invalid number of ecdh")
---------------------------------------------------------------------------
(* Multisig sessions.  Any host behind a UI whose notifications return     *)
(* opens one session, multisig or not, of one or two inputs and one        *)
(* output, and sends whatever requests it likes.                           *)

TsxDatasMultisig ==
    [num_inputs : 1..MaxInputs, outputs : [1..1 -> Dests], fee : {0},
     exp_tx_prefix_hash : {None}, change_dts : {None}, use_tx_keys : {<<>>},
     account : {Some(0)}, minor_indices : {<<0, 1>>}, is_multisig : BOOLEAN]

ReqInitMultisig ==
    \E tsx_data \in TsxDatasMultisig, r \in TxSecrets, rnd \in KeyRandoms :
        sign_init(tsx_data, r, rnd, "confirm", TRUE)

NextMultisig ==
    \/ ReqInitMultisig
    \/ ReqSetInput
    \/ ReqInputsPermutation
    \/ ReqInputVini
    \/ ReqSetOutput
    \/ ReqAllOutSet
    \/ ReqMlsagDone
    \/ ReqSignInput
    \/ ReqFinal
    \/ ReqUnknown

SpecMultisig == InitTxKeys /\ [][NextMultisig]_vars

(* K_cout of the session: derived from key_enc and the tag alone *)
KCout == SubKey([pfx |-> "enc", master |-> tsx_obj.key_master], "cout", -1)

(* C34: only the answer of Final has a cout_key; it is K_cout when the     *)
(* session is multisig and none otherwise, and Final is answered only when *)
(* every input has been signed; only the answer of SignInput has a cout;   *)
(* in a multisig session it is sealed under K_cout, whatever the input,    *)
(* and in any other session there is none.                                 *)
C34_CoutKey ==
    /\ "cout_key" \in DOMAIN resp =>
           /\ resp.t = "FinalResp"
           /\ Len(OfStage("SignInput")) = Declared.num_inputs
           /\ resp.cout_key = IF Declared.is_multisig THEN KCout ELSE NoSubKey
    /\ "cout" \in DOMAIN resp =>
           /\ resp.t = "SignInputResp"
           /\ IF Declared.is_multisig
              THEN resp.cout.kind = "aead" /\ resp.cout.key = KCout
              ELSE resp.cout = NoSeal
    /\ resp.t = "FinalResp" => "cout_key" \in DOMAIN resp
    /\ resp.t = "SignInputResp" => "cout" \in DOMAIN resp

C34_Witness ==
    /\ resp.t = "SignInputResp"
    /\ Declared.is_multisig
    /\ Declared.num_inputs = MaxInputs
    /\ Len(OfStage("SignInput")) = MaxInputs
    /\ resp.cout.kind = "aead"
    /\ resp.cout.key = KCout

(* Final of a multisig session gives the key out *)
CoutKeyGivenOut ==
    /\ resp.t = "FinalResp"
    /\ Declared.is_multisig
    /\ resp.cout_key = KCout
---------------------------------------------------------------------------
(* Source entries of any shape.  The host opens a session of one input and *)
(* one output and presents source entries whose mask, whose real output's  *)
(* commitment and whose real output's destination key are what it likes.   *)

SrcEntriesAny ==
    [amount : 1..MaxAmount, real_output : {0}, mask : {encodeint(m) : m \in Scalars},
     real_commitment : {gen_c(m, a) : m \in Scalars, a \in 1..MaxAmount},
     real_dest : {"own", "foreign"}]

TsxDatasOneInput ==
    [num_inputs : {1}, outputs : [1..1 -> Dests], fee : {0},
     exp_tx_prefix_hash : {None}, change_dts : {None}, use_tx_keys : {<<>>},
     account : {Some(0)}, minor_indices : {<<0, 1>>}, is_multisig : {FALSE}]

ReqInitOneInput ==
    \E tsx_data \in TsxDatasOneInput, r \in TxSecrets, rnd \in KeyRandoms :
        sign_init(tsx_data, r, rnd, "confirm", TRUE)

NextSourceEntries ==
    \/ ReqInitOneInput
    \/ ReqSetInputOf(SrcEntriesAny)
    \/ ReqInputsPermutation
    \/ ReqInputViniOf(SrcEntriesAny)
    \/ ReqSetOutput
    \/ ReqAllOutSet
    \/ ReqMlsagDone
    \/ ReqSignInputOf(SrcEntriesAny)
    \/ ReqFinal
    \/ ReqUnknown

SpecSourceEntries == InitTxKeys /\ [][NextSourceEntries]_vars

(* x.G is the destination key of the real output of the entry *)
SpendsRealOutput(x, src_entr) == scalarmult_base(x) = dest_of_real_output(src_entr)

(* mask.G + amount.H is the commitment of the real output of the entry *)
OpensCommitment(src_entr) ==
    src_entr.real_commitment = gen_c(decodeint(src_entr.mask), src_entr.amount)

(* C35: a SignInput request is answered with a signature only if the       *)
(* secret stored for its position is the discrete logarithm of the         *)
(* destination key of the real output of the source entry presented and    *)
(* the entry's mask and amount open the commitment of that output; every   *)
(* other SignInput request is answered with an error that carries no       *)
(* signature, and the transaction object is gone and marked for purging.   *)
C35_PrivateKeyTest ==
    [][req' = "sign_input" =>
          IF resp'.t = "SignInputResp"
          THEN LET src_entr == accepted'[Len(accepted')].src_entr[1]
                   x == tsx_obj.input_secrets[tsx_obj'.inp_idx + 1]
               IN  /\ accepted'[Len(accepted')].stage = "SignInput"
                   /\ SpendsRealOutput(x, src_entr)
                   /\ OpensCommitment(src_entr)
          ELSE /\ resp'.t = "RespError"
               /\ "signature" \notin DOMAIN resp'
               /\ tsx_obj' = NoObj
               /\ purge']_vars

C35_Witness ==
    /\ resp.t = "SignInputResp"
    /\ accepted[Len(accepted)].stage = "SignInput"
    /\ OpensCommitment(accepted[Len(accepted)].src_entr[1])
    /\ accepted[Len(accepted)].src_entr[1].mask = encodeint(1)

(* the private key test is what fails a SignInput *)
PrivateKeyTestFails ==
    /\ req = "sign_input"
    /\ resp.t = "RespError"
    /\ resp.exc = "Assertion error"
    /\ ~tsx_obj.alive
    /\ purge
---------------------------------------------------------------------------
(* RctSigPrunable.serialize_rctsig_prunable (xmrtypes.py), the writing of  *)
(* the prunable part of a RingCT signature to an Archive.                  *)

RctType_Null == 0
RctType_Full == 1
RctType_Simple == 2
RctType_FullBulletproof == 3
RctType_SimpleBulletproof == 4

(* The methods class Archive defines (xmrserialize.py); the class has no   *)
(* base class and no __getattr__, so a call of any other name raises       *)
(* AttributeError.  begin_array, end_array, begin_object and end_object    *)
(* are not among them.                                                     *)
ArchiveMethods ==
    {"prepare_container", "prepare_message", "uvarint", "uint", "unicode_type", "blob",
     "container", "container_size", "container_val", "tuple", "variant", "message",
     "message_field", "message_fields", "field", "dump_field", "load_field", "root"}

(* The outcome of a write: the exception raised, what the call returned,   *)
(* and the fields the archive was given, in order.                         *)
Wrote(ret, fields) == [exc |-> NoExc, ret |-> ret, out |-> fields]
WriteFailed(e, fields) == [exc |-> e, ret |-> None, out |-> fields]

(* serialize_rctsig_prunable: type Null returns True at once; a type that  *)
(* is none of the four is a ValueError; for the four types both branches   *)
(* start with ar.begin_array(), which class Archive does not define, so    *)
(* no later statement is reached.                                          *)
serialize_rctsig_prunable(type, inputs, outputs, mixin, p) ==
    IF type = RctType_Null THEN Wrote(Some(TRUE), <<>>)
    ELSE IF type \notin {RctType_Full, RctType_FullBulletproof, RctType_Simple,
                         RctType_SimpleBulletproof}
        THEN WriteFailed("Unknown type", <<>>)
    ELSE WriteFailed("'Archive' object has no attribute 'begin_array'", <<>>)

(* MgSig values: ss is a matrix of scalars, cc a scalar *)
Matrix(rows, cols, x) == [j \in 1..rows |-> [k \in 1..cols |-> x]]
MgSigs ==
    {[ss |-> Matrix(rows, cols, 0), cc |-> cc] :
        rows \in 1..(RingSize + 1), cols \in 1..(MaxInputs + 1), cc \in Scalars}
MgLists == UNION {[1..n -> MgSigs] : n \in 0..MaxInputs}
Prunables ==
    [rangeSigs : {Rep(k, "RangeSig") : k \in 0..1}, MGs : MgLists]

(* A prunable part is written for some type, number of inputs and mixin    *)
(* and one output.                                                         *)
WriteRctSig ==
    /\ lab = NoLab
    /\ \E type \in RctType_Null..(RctType_SimpleBulletproof + 1), inputs \in 1..MaxInputs,
          mixin \in 0..RingSize, p \in Prunables :
           lab' = [t |-> "rctsig", type |-> type, inputs |-> inputs, outputs |-> 1,
                   mixin |-> mixin, p |-> p,
                   res |-> serialize_rctsig_prunable(type, inputs, 1, mixin, p)]
    /\ UNCHANGED <<tsx_ctr, err_ctr, purge, tsx_obj, creds, iface, ui_errors, resp, host,
                   accepted, req, holder>>

NextRctSig == WriteRctSig

SpecRctSig == Init /\ [][NextRctSig]_vars

IsSimpleType(type) == type \in {RctType_Simple, RctType_SimpleBulletproof}
IsFullType(type) == type \in {RctType_Full, RctType_FullBulletproof}

(* the shape the signature of a transaction has *)
WellShaped(type, inputs, mixin, MGs) ==
    /\ Len(MGs) = IF IsSimpleType(type) THEN inputs ELSE 1
    /\ \A i \in 1..Len(MGs) :
           /\ Len(MGs[i].ss) = mixin + 1
           /\ \A j \in 1..Len(MGs[i].ss) :
                  Len(MGs[i].ss[j]) = 1 + (IF IsSimpleType(type) THEN 1 ELSE inputs)

(* an MgSig without size prefixes: the scalars of ss row by row, then cc *)
RECURSIVE Flat(_)
Flat(ss) == IF ss = <<>> THEN <<>> ELSE Head(ss) \o Flat(Tail(ss))
MgBare(mg) == Flat(mg.ss) \o <<mg.cc>>
RECURSIVE MgsBare(_)
MgsBare(MGs) == IF MGs = <<>> THEN <<>> ELSE MgBare(Head(MGs)) \o MgsBare(Tail(MGs))

(* C36: a Simple or Full signature of the right shape (num_inputs MgSigs   *)
(* for Simple, one for Full, each with mixin+1 rows of 1 + (1 if Simple    *)
(* else num_inputs) scalars) is written, and its MgSigs are written as the *)
(* bare scalars of ss followed by cc; a signature of any other shape is    *)
(* refused with an error.                                                  *)
C36_MgSigShape ==
    (lab.t = "rctsig" /\ (IsSimpleType(lab.type) \/ IsFullType(lab.type))) =>
        IF WellShaped(lab.type, lab.inputs, lab.mixin, lab.p.MGs)
           /\ Len(lab.p.rangeSigs) = lab.outputs
        THEN /\ lab.res.exc = NoExc
             /\ \E k \in 0..Len(lab.res.out) :
                    SubSeq(lab.res.out, k + 1, Len(lab.res.out)) = MgsBare(lab.p.MGs)
        ELSE lab.res.exc # NoExc

(* With the Archive of xmrserialize.py no signature of the four types is   *)
(* written, whatever its shape: the call ends in AttributeError with       *)
(* nothing given to the archive.                                           *)
NoSignatureWritten ==
    (lab.t = "rctsig" /\ (IsSimpleType(lab.type) \/ IsFullType(lab.type))) =>
        /\ lab.res.exc = "'Archive' object has no attribute 'begin_array'"
        /\ lab.res.out = <<>>

(* a Simple signature of two inputs of the right shape is refused *)
WellShapedRefused ==
    /\ lab.t = "rctsig"
    /\ lab.type = RctType_Simple
    /\ lab.inputs = MaxInputs
    /\ WellShaped(lab.type, lab.inputs, lab.mixin, lab.p.MGs)
    /\ Len(lab.p.rangeSigs) = lab.outputs
    /\ lab.res.exc # NoExc
---------------------------------------------------------------------------
(* Sessions that follow one another.  One signer serves up to MaxTsx Init  *)
(* requests of transactions of one input and one output, behind a user     *)
(* interface whose notifications return ("silent": as "quiet", with the    *)
(* bound MaxTsx on the sessions); the credentials are supplied, the user   *)
(* confirms or cancels, the change address may be missing from the         *)
(* outputs, and between the Inits the host sends whatever requests it      *)
(* likes.                                                                  *)

InitReplace == InitCommon /\ iface = "silent"

TsxDatasReplace ==
    [num_inputs : {1}, outputs : [1..1 -> Dests], fee : {0},
     exp_tx_prefix_hash : {None},
     change_dts : {None, Some([amount |-> 1, addr |-> "B", is_subaddress |-> FALSE])},
     use_tx_keys : {<<>>}, account : {Some(0)}, minor_indices : {<<0, 1>>},
     is_multisig : {FALSE}]

ReqInitAgain ==
    \E tsx_data \in TsxDatasReplace, usr \in {"confirm", "cancel"} :
    \E r \in TxSecrets, rnd \in KeyRandoms :
        sign_init(tsx_data, r, rnd, usr, TRUE)

NextReplace ==
    \/ ReqInitAgain
    \/ ReqSetInput
    \/ ReqInputsPermutation
    \/ ReqInputVini
    \/ ReqSetOutput
    \/ ReqAllOutSet
    \/ ReqMlsagDone
    \/ ReqSignInput
    \/ ReqFinal
    \/ ReqUnknown

SpecReplace == InitReplace /\ [][NextReplace]_vars

(* the master key a sealed value was made under *)
MasterOf(h) == h.key.parent.master

(* the object is one that an Init has just made: it waits for the first    *)
(* input and its master key was derived with the counter of this Init      *)
JustInitialised(o, ctr) ==
    /\ o.alive
    /\ o.state = "INP_CNT"
    /\ o.inp_idx = -1
    /\ o.out_idx = -1
    /\ o.input_secrets = <<>>
    /\ o.key_master.ctr = ctr

(* the transaction object before an Init is not the one after it *)
Replaced ==
    /\ tsx_obj'.alive => JustInitialised(tsx_obj', tsx_ctr + 1)
    /\ tsx_obj.alive => tsx_obj' # tsx_obj

(* nothing the host holds was sealed under a key of the new session, save  *)
(* what the answer to this Init gives it                                   *)
OldSealsAreForeign ==
    tsx_obj'.alive =>
        /\ \A h \in host : MasterOf(h) # tsx_obj'.key_master
        /\ \A h \in host' : MasterOf(h) = tsx_obj'.key_master => h \in Sealed(resp')

SetupRaisedSessionKept ==
    /\ req = "init"
    /\ resp.t = "Raised"
    /\ tsx_obj.alive

---------------------------------------------------------------------------
(* all_in_set (signing/step_05_all_in_set.py), the step that follows the   *)
(* last input when range proofs are made by the host.  The state object    *)
(* is given by the fields the step reads and writes.                       *)

(* the stage operation of the step; the state class of this package is not *)
(* part of the sources, the operation is taken to follow the hashing of    *)
(* the inputs                                                              *)
input_all_done(s) == IF s # "INPUT_VINS" THEN Illegal ELSE "INPUT_ALL_DONE"

(* lines 34-43, the mask of output i (from 0) and the sum after it: the    *)
(* last mask of a Simple transaction is sumpouts_alphas - sumout, every    *)
(* other one is random                                                     *)
cur_mask(st, i, sumout, random) ==
    IF i + 1 = st.num_dests /\ st.use_simple_rct
    THEN sc_sub(st.sumpouts_alphas, sumout)
    ELSE random

RECURSIVE masks_upto(_, _, _)
masks_upto(st, n, randoms) ==
    IF n = 0 THEN [sumout |-> 0, output_masks |-> <<>>]
    ELSE LET before == masks_upto(st, n - 1, randoms)
             mask == cur_mask(st, n - 1, before.sumout, randoms[n])
         IN  [sumout |-> sc_add(before.sumout, mask),
              output_masks |-> Append(before.output_masks, mask)]

(* The outcome of the step: the exception, the state object as the step    *)
(* leaves it, and rsig_data.mask of the answer as the list of the masks    *)
(* copied into it.                                                         *)
StepOk(st, mask) == [exc |-> NoExc, st |-> st, rsig_data |-> mask]
StepRaised(e, st) == [exc |-> e, st |-> st, rsig_data |-> <<>>]

(* all_in_set.  The module imports misc, common, crypto and monero; the    *)
(* name utils of line 45 is bound nowhere, so the first pass of the loop   *)
(* ends in NameError after it has added the mask to sumout and to          *)
(* output_masks.  The notification of the step has no sub-step.            *)
all_in_set(st, randoms) ==
    LET s1 == input_all_done(st.state)
        st1 == [st EXCEPT !.state = s1]
        first == masks_upto(st, 1, randoms)
        st2 == [st1 EXCEPT !.sumout = 0]
    IN  IF s1 = Illegal THEN StepRaised(Illegal, st)
        ELSE IF ~st.rsig_offload THEN StepOk(st1, <<>>)
        ELSE IF st.num_dests > 0
            THEN StepRaised("name 'utils' is not defined",
                            [st2 EXCEPT !.sumout = first.sumout,
                                        !.output_masks = st.output_masks \o first.output_masks])
        ELSE IF ~sc_eq(st2.sumout, st.sumpouts_alphas)
            THEN StepRaised("Invalid masks sum", st2)
        ELSE StepOk(st2, <<>>)

(* The state objects the step is entered with: inputs hashed or not,       *)
(* offloading on or off, Simple or Full, where only a Simple transaction   *)
(* has accumulated pseudo-output masks                                     *)
StepStates ==
    {st \in [state : {"INPUT_PERM", "INPUT_VINS"}, rsig_offload : BOOLEAN,
             use_simple_rct : BOOLEAN, num_dests : 0..MaxOutputs,
             sumpouts_alphas : Scalars, sumout : {0}, output_masks : {<<>>}] :
        st.use_simple_rct \/ st.sumpouts_alphas = 0}

AllInSet ==
    /\ lab = NoLab
    /\ \E st \in StepStates, randoms \in [1..MaxOutputs -> Scalars] :
           lab' = [t |-> "all_in_set", st |-> st, randoms |-> randoms,
                   res |-> all_in_set(st, randoms)]
    /\ UNCHANGED <<tsx_ctr, err_ctr, purge, tsx_obj, creds, iface, ui_errors, resp, host,
                   accepted, req, holder>>

NextAllInSet == AllInSet

SpecAllInSet == Init /\ [][NextAllInSet]_vars

RECURSIVE MaskSum(_)
MaskSum(masks) == IF masks = <<>> THEN 0 ELSE sc_add(Head(masks), MaskSum(Tail(masks)))

(* C39: entered in its stage with offloading on, the step ends without an  *)
(* exception for Simple and for Full and for any number of destinations,   *)
(* gives the host num_dests masks whose sum is sumpouts_alphas, and leaves *)
(* sumout zero; with offloading off it gives no masks and changes nothing  *)
(* of the state but the stage.                                             *)
C39_MaskSum ==
    (lab.t = "all_in_set" /\ lab.st.state = "INPUT_VINS") =>
        IF lab.st.rsig_offload
        THEN /\ lab.res.exc = NoExc
             /\ Len(lab.res.rsig_data) = lab.st.num_dests
             /\ MaskSum(lab.res.rsig_data) = lab.st.sumpouts_alphas
             /\ lab.res.st.sumout = 0
        ELSE /\ lab.res.exc = NoExc
             /\ lab.res.rsig_data = <<>>
             /\ lab.res.st = [lab.st EXCEPT !.state = lab.res.st.state]

(* the half of the claim that holds: with offloading off *)
OffloadOffOnlyStage ==
    (lab.t = "all_in_set" /\ lab.st.state = "INPUT_VINS" /\ ~lab.st.rsig_offload) =>
        /\ lab.res.exc = NoExc
        /\ lab.res.rsig_data = <<>>
        /\ lab.res.st = [lab.st EXCEPT !.state = "INPUT_ALL_DONE"]

(* with offloading on and a destination, the step ends in NameError *)
OffloadOnNameError ==
    (lab.t = "all_in_set" /\ lab.st.state = "INPUT_VINS" /\ lab.st.rsig_offload
        /\ lab.st.num_dests > 0) =>
        lab.res.exc = "name 'utils' is not defined"

(* the masks lines 34-43 compute for a Simple transaction sum to           *)
(* sumpouts_alphas                                                         *)
SimpleMasksSum ==
    (lab.t = "all_in_set" /\ lab.st.use_simple_rct /\ lab.st.num_dests > 0) =>
        masks_upto(lab.st, lab.st.num_dests, lab.randoms).sumout = lab.st.sumpouts_alphas

(* those of a Full transaction need not: the test of line 47 is made for   *)
(* Full as well and would fail                                             *)
FullMasksSumDiffers ==
    /\ lab.t = "all_in_set"
    /\ ~lab.st.use_simple_rct
    /\ lab.st.rsig_offload
    /\ lab.st.num_dests > 0
    /\ masks_upto(lab.st, lab.st.num_dests, lab.randoms).sumout # lab.st.sumpouts_alphas
---------------------------------------------------------------------------
(* Progress notifications *)

TypeErrorOfStep == "%d format: a number is required, not NoneType"

(* C40: no stage request is answered with the error of a progress          *)
(* notification: every call of transaction_step the builder makes returns. *)
C40_NotificationsReturn ==
    resp.t = "RespError" => resp.exc # TypeErrorOfStep

(* the first SetInput of a session is answered with the TypeError of       *)
(* transaction_step(STEP_INP, inp_idx), whatever its source entry          *)
FirstSetInputFails ==
    [][(req' = "set_input" /\ tsx_obj.alive /\ tsx_obj.state = "INP_CNT"
            /\ iface = "TrezorInterface")
          => (resp'.t = "RespError" /\ resp'.exc = TypeErrorOfStep /\ ~tsx_obj'.alive)]_vars

(* of the seven calls, those of STEP_PERM, STEP_ALL_OUT and STEP_MLSAG     *)
(* return and those of STEP_INP, STEP_VINI, STEP_OUT and STEP_SIGN raise   *)
(* with TrezorInterface                                                    *)
CallsThatReturn ==
    /\ ~transaction_step(STEP_PERM, None, None)
    /\ ~transaction_step(STEP_ALL_OUT, None, None)
    /\ ~transaction_step(STEP_MLSAG, None, None)
    /\ iface = "TrezorInterface" =>
           /\ \A i \in 0..MaxInputs :
                  transaction_step(STEP_INP, Some(i), None)
                  /\ transaction_step(STEP_VINI, Some(i), None)
           /\ \A j \in 0..MaxOutputs : transaction_step(STEP_OUT, Some(j), None)
           /\ transaction_step(STEP_SIGN, None, None)
====
